---- MODULE Spec2Model ----
(***************************************************************************)
(* FIX trade log analyzer (repository_after/src/lib.rs): the escape codec, *)
(* the tokenizer, the bump arena and the lock-free symbol table, with the  *)
(* TradeAnalyzer facade on top.  Ingesting threads execute                 *)
(* process_message_lossy one atomic memory operation per step.             *)
(*                                                                         *)
(* Bytes are their ASCII codes.  A u64 is kept at its width as eight       *)
(* little-endian byte limbs (TLC's integers are 32 bit), so that FNV-1a,   *)
(* checked parsing and wrapping adds are computed as the code computes     *)
(* them.  Indices into byte strings are 0-based as in the source; the      *)
(* sequence element at source index i is s[i + 1].                         *)
(***************************************************************************)
EXTENDS Integers, Sequences, FiniteSets, TLC

\* ------------------------------------------------------------------ bounds

\* Ingesting threads 1..NumThreads (thread 1 is also the warm-up thread).
NumThreads == 2
\* process_message_lossy calls made after the warm-up, over all threads.
MaxCalls == 3
\* max_symbols handed to TradeAnalyzer::new (rounded up to the capacity).
MaxSymbols == 5
\* arena_bytes handed to TradeAnalyzer::new in the cold-start scenario.
ArenaBytes == 2
\* Loads of meta that wait_meta repeats before giving up (1000 in the
\* source, line 515).  A waiter may run its whole loop while no other thread
\* is scheduled, so the shared states reachable with the scaled-down limit
\* are those reachable with 1000.
SpinLimit == 1
\* report_string calls the reporting thread makes.
MaxReports == 2
\* Calls ingested while ingestion and reporting interleave.
RaceCalls == 2
\* Longest raw message made of arbitrary short fields.
MaxFieldBytes == 4
\* Longest arbitrary quantity text and symbol value handed to the tokenizer.
MaxValueBytes == 3

\* --------------------------------------------------------------- constants

FIELD_DELIM == 124
ESCAPE == 92
EQUALS == 61
MinCapacity == 8
TimestampLen == 24
MaxMicros == 999999

Threads == 1..NumThreads

\* ------------------------------------------------------------ Option, u64

None == [some |-> FALSE]
Some(x) == [some |-> TRUE, v |-> x]

RECURSIVE NatBytes(_, _)
\* The k low bytes of the natural n, little-endian (n as uN truncated).
NatBytes(n, k) == IF k = 0 THEN <<>> ELSE <<n % 256>> \o NatBytes(n \div 256, k - 1)

RECURSIVE BytesNat(_)
\* The value of a little-endian byte string (used only on small values).
BytesNat(bs) == IF bs = <<>> THEN 0 ELSE Head(bs) + 256 * BytesNat(Tail(bs))

U64(n) == NatBytes(n, 8)
U64Zero == U64(0)

RECURSIVE AddLimbs(_, _, _)
\* a + b + c limb by limb: the 8 result limbs followed by the carry out.
AddLimbs(a, b, c) ==
    IF a = <<>> THEN <<c>>
    ELSE LET s == Head(a) + Head(b) + c
         IN  <<s % 256>> \o AddLimbs(Tail(a), Tail(b), s \div 256)

RECURSIVE MulLimbs(_, _, _)
\* a * k + c for a small k: the result limbs followed by the carry out.
MulLimbs(a, k, c) ==
    IF a = <<>> THEN <<c>>
    ELSE LET s == Head(a) * k + c
         IN  <<s % 256>> \o MulLimbs(Tail(a), k, s \div 256)

wrapping_add(a, b) == SubSeq(AddLimbs(a, b, 0), 1, 8)

checked_add(a, b) ==
    LET r == AddLimbs(a, b, 0) IN IF r[9] = 0 THEN Some(SubSeq(r, 1, 8)) ELSE None

checked_mul_small(a, k) ==
    LET r == MulLimbs(a, k, 0) IN IF r[9] = 0 THEN Some(SubSeq(r, 1, 8)) ELSE None

RECURSIVE wrapping_mul(_, _)
\* a * b mod 2^64, schoolbook over the limbs of b.
wrapping_mul(a, b) ==
    IF b = <<>> THEN U64Zero
    ELSE wrapping_add(SubSeq(MulLimbs(a, Head(b), 0), 1, 8),
                      SubSeq(<<0>> \o wrapping_mul(a, Tail(b)), 1, 8))

RECURSIVE XorNat(_, _)
XorNat(a, b) ==
    IF a = 0 THEN b
    ELSE IF b = 0 THEN a
    ELSE ((a + b) % 2) + 2 * XorNat(a \div 2, b \div 2)

\* h ^ (b as u64)
xor_byte(h, b) == <<XorNat(h[1], b)>> \o Tail(h)

RECURSIVE U64Less(_, _)
\* a < b, most significant limb first.
U64Less(a, b) ==
    IF a = <<>> THEN FALSE
    ELSE LET n == Len(a)
         IN  IF a[n] # b[n] THEN a[n] < b[n]
             ELSE U64Less(SubSeq(a, 1, n - 1), SubSeq(b, 1, n - 1))

\* &s[from..to] of the source (0-based, to exclusive).
Slice(s, from, to) == SubSeq(s, from + 1, to)

\* ------------------------------------------------------------ escape codec

RECURSIVE find_unescaped(_, _, _)
find_unescaped(bytes, i, needle) ==
    IF i >= Len(bytes) THEN None
    ELSE IF bytes[i + 1] = ESCAPE
         THEN IF i + 1 < Len(bytes)
              THEN find_unescaped(bytes, i + 2, needle)
              ELSE find_unescaped(bytes, i + 1, needle)
         ELSE IF bytes[i + 1] = needle THEN Some(i)
         ELSE find_unescaped(bytes, i + 1, needle)

RECURSIVE decode_from(_, _)
\* The bytes decode_into writes to out[0..], reading raw from index i.
decode_from(raw, i) ==
    IF i >= Len(raw) THEN <<>>
    ELSE IF raw[i + 1] = ESCAPE /\ i + 1 < Len(raw)
         THEN <<raw[i + 2]>> \o decode_from(raw, i + 2)
         ELSE <<raw[i + 1]>> \o decode_from(raw, i + 1)

RECURSIVE decode_dropping_from(_, _)
\* A decoder that drops an escape byte with no byte after it.
decode_dropping_from(raw, i) ==
    IF i >= Len(raw) THEN <<>>
    ELSE IF raw[i + 1] = ESCAPE
         THEN IF i + 1 < Len(raw)
              THEN <<raw[i + 2]>> \o decode_dropping_from(raw, i + 2)
              ELSE <<>>
         ELSE <<raw[i + 1]>> \o decode_dropping_from(raw, i + 1)

decode_into_dropping(raw) == decode_dropping_from(raw, 0)

decode_into(raw) == decode_from(raw, 0)

RECURSIVE decoded_len_from(_, _)
decoded_len_from(raw, i) ==
    IF i >= Len(raw) THEN 0
    ELSE IF raw[i + 1] = ESCAPE /\ i + 1 < Len(raw)
         THEN 1 + decoded_len_from(raw, i + 2)
         ELSE 1 + decoded_len_from(raw, i + 1)

decoded_len(raw) == decoded_len_from(raw, 0)

RECURSIVE escaped_eq_from(_, _, _, _)
escaped_eq_from(raw, stored, i, j) ==
    IF i >= Len(raw) THEN j = Len(stored)
    ELSE LET esc == raw[i + 1] = ESCAPE /\ i + 1 < Len(raw)
             b == IF esc THEN raw[i + 2] ELSE raw[i + 1]
             ni == IF esc THEN i + 2 ELSE i + 1
         IN  IF j >= Len(stored) \/ stored[j + 1] # b THEN FALSE
             ELSE escaped_eq_from(raw, stored, ni, j + 1)

\* A comparison of the raw bytes, escapes not decoded.
escaped_eq_raw(raw, stored) == raw = stored

\* A comparison that stops at the end of raw without looking at the length
\* of stored.
escaped_eq_prefix(raw, stored) ==
    LET d == decode_into(raw)
    IN  Len(d) <= Len(stored) /\ SubSeq(stored, 1, Len(d)) = d

\* A comparison that takes the equal hashes for equal bytes.
escaped_eq_trusting(raw, stored) == TRUE

escaped_eq(raw, stored) == escaped_eq_from(raw, stored, 0, 0)

FNV_OFFSET == <<37, 35, 34, 132, 228, 156, 242, 203>>  \* 0xcbf29ce484222325
FNV_PRIME == <<179, 1, 0, 0, 0, 1, 0, 0>>              \* 0x100000001b3

RECURSIVE fnv1a_from(_, _, _, _)
\* The loop of hash64_and_len: <<h, n>> after consuming raw from index i.
fnv1a_from(raw, i, h, n) ==
    IF i >= Len(raw) THEN <<h, n>>
    ELSE LET esc == raw[i + 1] = ESCAPE /\ i + 1 < Len(raw)
             b == IF esc THEN raw[i + 2] ELSE raw[i + 1]
             ni == IF esc THEN i + 2 ELSE i + 1
             nh == wrapping_mul(xor_byte(h, b), FNV_PRIME)
         IN  \* the eight limbs of h are computed before the next byte is read
             IF Len(nh) = 8 THEN fnv1a_from(raw, ni, nh, n + 1) ELSE <<nh, n>>

RECURSIVE fnv1a_raw_from(_, _, _)
\* FNV-1a over the raw bytes from index i, escapes not decoded.
fnv1a_raw_from(raw, i, h) ==
    IF i >= Len(raw) THEN h
    ELSE LET nh == wrapping_mul(xor_byte(h, raw[i + 1]), FNV_PRIME)
         IN  IF Len(nh) = 8 THEN fnv1a_raw_from(raw, i + 1, nh) ELSE nh

\* A hash of the bytes as they are written in the message.
hash64_and_len_raw(raw) ==
    LET h == fnv1a_raw_from(raw, 0, FNV_OFFSET)
    IN  IF h = U64Zero THEN <<U64(1), Len(raw)>> ELSE <<h, Len(raw)>>

hash64_and_len(raw) ==
    LET r == fnv1a_from(raw, 0, FNV_OFFSET, 0)
    IN  IF r[1] = U64Zero THEN <<U64(1), r[2]>> ELSE r

\* --------------------------------------------------------------- tokenizer

IsDigit(d) == d >= 48 /\ d <= 57
HasEscape(s) == \E k \in 1..Len(s) : s[k] = ESCAPE

RECURSIVE parse_digits_wrapping(_, _)
\* The loop of parse_u64 with v * 10 + digit computed modulo 2^64.
parse_digits_wrapping(s, v) ==
    IF s = <<>> THEN Some(v)
    ELSE IF ~IsDigit(Head(s)) THEN None
    ELSE LET m == Some(SubSeq(MulLimbs(v, 10, 0), 1, 8))
             a == IF m.some THEN Some(wrapping_add(m.v, U64(Head(s) - 48))) ELSE None
         IN  IF a.some THEN parse_digits_wrapping(Tail(s), a.v) ELSE None

\* parse_u64 without the overflow check.
parse_u64_wrapping(s) ==
    IF s = <<>> THEN None
    ELSE IF HasEscape(s) THEN None
    ELSE parse_digits_wrapping(s, U64Zero)

RECURSIVE parse_digits(_, _)
\* The while loop of parse_u64: checked v * 10 + digit.
parse_digits(s, v) ==
    IF s = <<>> THEN Some(v)
    ELSE IF ~IsDigit(Head(s)) THEN None
    ELSE LET m == checked_mul_small(v, 10)
             a == IF m.some THEN checked_add(m.v, U64(Head(s) - 48)) ELSE None
         IN  IF a.some THEN parse_digits(Tail(s), a.v) ELSE None

parse_u64(s) ==
    IF s = <<>> THEN None
    ELSE IF HasEscape(s) THEN None
    ELSE parse_digits(s, U64Zero)

\* parse_timestamp packing the hours with the weight of the minutes.
parse_timestamp_flat(s) ==
    IF Len(s) < TimestampLen THEN None
    ELSE IF s[9] # 45 \/ s[12] # 58 \/ s[15] # 58 \/ s[18] # 46 THEN None
    ELSE IF HasEscape(s) THEN None
    ELSE LET ymd == parse_u64(Slice(s, 0, 8))
             hh == parse_u64(Slice(s, 9, 11))
             mm == parse_u64(Slice(s, 12, 14))
             ss == parse_u64(Slice(s, 15, 17))
             us == parse_u64(Slice(s, 18, 24))
         IN  IF ~(ymd.some /\ hh.some /\ mm.some /\ ss.some /\ us.some) THEN None
             ELSE Some([seconds |->
                           wrapping_add(
                             wrapping_add(
                               wrapping_add(
                                 SubSeq(MulLimbs(ymd.v, 1000000, 0), 1, 8),
                                 SubSeq(MulLimbs(hh.v, 100, 0), 1, 8)),
                               SubSeq(MulLimbs(mm.v, 100, 0), 1, 8)),
                             ss.v),
                        micros |-> BytesNat(SubSeq(us.v, 1, 4))])

parse_timestamp(s) ==
    IF Len(s) < TimestampLen THEN None
    ELSE IF s[9] # 45 \/ s[12] # 58 \/ s[15] # 58 \/ s[18] # 46 THEN None
    ELSE IF HasEscape(s) THEN None
    ELSE LET ymd == parse_u64(Slice(s, 0, 8))
             hh == parse_u64(Slice(s, 9, 11))
             mm == parse_u64(Slice(s, 12, 14))
             ss == parse_u64(Slice(s, 15, 17))
             us == parse_u64(Slice(s, 18, 24))
         IN  IF ~(ymd.some /\ hh.some /\ mm.some /\ ss.some /\ us.some) THEN None
             ELSE LET micros == SubSeq(us.v, 1, 4) \o <<0, 0, 0, 0>>  \* as u32
                  IN  IF U64Less(U64(MaxMicros), micros) THEN None
                      ELSE Some([seconds |->
                                    wrapping_add(
                                      wrapping_add(
                                        wrapping_add(
                                          SubSeq(MulLimbs(ymd.v, 1000000, 0), 1, 8),
                                          SubSeq(MulLimbs(hh.v, 10000, 0), 1, 8)),
                                        SubSeq(MulLimbs(mm.v, 100, 0), 1, 8)),
                                      ss.v),
                                 micros |-> BytesNat(SubSeq(micros, 1, 4))])

\* Lines 189-194: the public wrapper of parse_timestamp.
parse_fix_timestamp(s) ==
    LET r == parse_timestamp(s)
    IN  IF r.some THEN [ok |-> TRUE, v |-> r.v]
        ELSE [ok |-> FALSE, kind |-> "InvalidTimestamp", at_byte |-> 0]

split_tag_value(field) ==
    IF ~(\E k \in 1..Len(field) : field[k] = EQUALS) THEN None
    ELSE LET i == (CHOOSE k \in 1..Len(field) :
                      field[k] = EQUALS /\ \A j \in 1..(k - 1) : field[j] # EQUALS) - 1
             tag == Slice(field, 0, i)
             value == Slice(field, i + 1, Len(field))
         IN  IF tag = <<>> THEN None ELSE Some(<<tag, value>>)

Ok(x) == [ok |-> TRUE, v |-> x]
Err(kind, at) == [ok |-> FALSE, kind |-> kind, at_byte |-> at]

Tag11 == <<49, 49>>
Tag55 == <<53, 53>>
Tag54 == <<53, 52>>
Tag38 == <<51, 56>>
Tag52 == <<53, 50>>
Tag58 == <<53, 56>>

NoFields ==
    [order_id |-> None, symbol |-> None, side |-> None, quantity |-> None,
     timestamp |-> None, text58 |-> None]

\* Lines 245-267: every required tag present, else MissingTag.
parse_finish(acc) ==
    IF /\ acc.order_id.some /\ acc.symbol.some /\ acc.side.some
       /\ acc.quantity.some /\ acc.timestamp.some
    THEN Ok([order_id |-> acc.order_id.v, symbol |-> acc.symbol.v,
             side |-> acc.side.v, quantity |-> acc.quantity.v,
             timestamp |-> acc.timestamp.v, text58 |-> acc.text58])
    ELSE Err("MissingTag", 0)

RECURSIVE parse_fields(_, _, _)
\* The while loop of parse_required from byte index i with the fields seen.
parse_fields(raw, i, acc) ==
    IF i >= Len(raw) THEN parse_finish(acc)
    ELSE
    LET field_start == i
        field_end == find_unescaped(raw, i, FIELD_DELIM)
        ni == IF field_end.some THEN field_end.v + 1 ELSE Len(raw)
    IN  IF field_start = ni - 1 THEN parse_fields(raw, ni, acc)
        ELSE
        LET field == Slice(raw, field_start,
                           IF field_end.some THEN field_end.v ELSE Len(raw))
            tv == split_tag_value(field)
        IN  IF ~tv.some THEN Err("InvalidField", field_start)
            ELSE
            LET tag == tv.v[1]
                value == tv.v[2]
            IN  IF tag = Tag11
                THEN parse_fields(raw, ni, [acc EXCEPT !.order_id = Some(value)])
                ELSE IF tag = Tag55
                THEN parse_fields(raw, ni, [acc EXCEPT !.symbol = Some(value)])
                ELSE IF tag = Tag54
                THEN parse_fields(raw, ni,
                        [acc EXCEPT !.side =
                            IF value = <<>> THEN None ELSE Some(value[1])])
                ELSE IF tag = Tag38
                THEN LET q == parse_u64(value)
                     IN  IF q.some
                         THEN parse_fields(raw, ni, [acc EXCEPT !.quantity = q])
                         ELSE Err("InvalidNumber", field_start)
                ELSE IF tag = Tag52
                THEN LET ts == parse_timestamp(value)
                     IN  IF ts.some
                         THEN parse_fields(raw, ni, [acc EXCEPT !.timestamp = ts])
                         ELSE Err("InvalidTimestamp", field_start)
                ELSE IF tag = Tag58
                THEN parse_fields(raw, ni, [acc EXCEPT !.text58 = Some(value)])
                ELSE parse_fields(raw, ni, acc)

parse_required(raw) == parse_fields(raw, 0, NoFields)

\* ------------------------------------------------------------------ inputs

Field(tag, value) == tag \o <<EQUALS>> \o value \o <<FIELD_DELIM>>

\* "20240115-09:30:00.123456"
GoodTimestamp ==
    <<50, 48, 50, 52, 48, 49, 49, 53, 45, 48, 57, 58, 51, 48, 58, 48, 48, 46,
      49, 50, 51, 52, 53, 54>>

\* "18446744073709551615" = 2^64 - 1
MaxQuantity ==
    <<49, 56, 52, 52, 54, 55, 52, 52, 48, 55, 51, 55, 48, 57, 53, 53, 49, 54, 49, 53>>

\* 11=O|55=<symbol>|54=<side>|38=<quantity>|52=<timestamp>|
Msg(symbol, side, quantity) ==
    Field(Tag11, <<79>>) \o Field(Tag55, symbol) \o Field(Tag54, <<side>>)
        \o Field(Tag38, quantity) \o Field(Tag52, GoodTimestamp)

\* The messages the threads ingest after the warm-up:
\*   1  55=A   buy   38=5          2  55=\A  sell  38=2^64-1 (decodes to A)
\*   3  55=BC  side 3              4  55=    (empty symbol)
\*   5  55=I   (probes from the same slot as A)
\*   6  11O|...           no '=' : InvalidField
\*   7  38=1x             InvalidNumber
\*   8  52=2024           InvalidTimestamp
\*   9  no 55 field       MissingTag
RunMessages ==
    << Msg(<<65>>, 49, <<53>>),
       Msg(<<ESCAPE, 65>>, 50, MaxQuantity),
       Msg(<<66, 67>>, 51, <<49>>),
       Msg(<<>>, 49, <<50>>),
       Msg(<<73>>, 50, <<51>>),
       <<49, 49, 79, FIELD_DELIM>> \o Msg(<<65>>, 49, <<53>>),
       Msg(<<65>>, 49, <<49, 120>>),
       Field(Tag11, <<79>>) \o Field(Tag55, <<65>>) \o Field(Tag54, <<49>>)
           \o Field(Tag38, <<53>>) \o Field(Tag52, <<50, 48, 50, 52>>),
       Field(Tag11, <<79>>) \o Field(Tag54, <<49>>) \o Field(Tag38, <<53>>)
           \o Field(Tag52, GoodTimestamp) >>

RECURSIVE NextPow2(_, _)
NextPow2(n, p) == IF p >= n THEN p ELSE NextPow2(n, 2 * p)

\* SymbolTable::new: cap = max_symbols.next_power_of_two().max(8)
Capacity ==
    LET p == NextPow2(MaxSymbols, 1) IN IF p < MinCapacity THEN MinCapacity ELSE p

mask == Capacity - 1
Slots == 0..mask

\* The warm-up workload: one message for each of Capacity distinct one-byte
\* symbols A, B, C, ..., ingested by thread 1 before the other threads start.
RECURSIVE WarmUpTo(_)
WarmUpTo(k) ==
    IF k = 0 THEN <<>> ELSE Append(WarmUpTo(k - 1), Msg(<<64 + k>>, 49, <<49>>))

WarmMessages == WarmUpTo(Capacity)

\* "3SGDjPsd2cG" and "JREIL-SrdYG": two symbols whose FNV-1a hash is the same
\* 64-bit value, 0xf0331c83a5ec58cf.
CollidingSymbols ==
    << <<51, 83, 71, 68, 106, 80, 115, 100, 50, 99, 71>>,
       <<74, 82, 69, 73, 76, 45, 83, 114, 100, 89, 71>> >>

\* A buy of 5 of the first colliding symbol, a sell of 3 of the second.
CollidingMessages ==
    << Msg(CollidingSymbols[1], 49, <<53>>), Msg(CollidingSymbols[2], 50, <<51>>) >>

Messages == RunMessages \o WarmMessages \o CollidingMessages
CollidingIdx == {Len(RunMessages) + Capacity + 1, Len(RunMessages) + Capacity + 2}
RunIdx == 1..Len(RunMessages)
WarmIdx == [k \in 1..Capacity |-> Len(RunMessages) + k]

RECURSIVE ParsedUpTo(_)
ParsedUpTo(n) ==
    IF n = 0 THEN <<>> ELSE Append(ParsedUpTo(n - 1), parse_required(Messages[n]))

RECURSIVE HashedUpTo(_, _)
HashedUpTo(ps, n) ==
    IF n = 0 THEN <<>>
    ELSE Append(HashedUpTo(ps, n - 1),
                IF ps[n].ok THEN hash64_and_len(ps[n].v.symbol) ELSE <<U64Zero, 0>>)

RECURSIVE DecodedUpTo(_, _)
DecodedUpTo(ps, n) ==
    IF n = 0 THEN <<>>
    ELSE Append(DecodedUpTo(ps, n - 1),
                IF ps[n].ok THEN decode_into(ps[n].v.symbol) ELSE <<>>)

\* parse_required, hash64_and_len and decode_into of every message, computed
\* once: a call's own locals, which no other thread can see or change.
Parsed == ParsedUpTo(Len(Messages))
Hashed == HashedUpTo(Parsed, Len(Messages))
Decoded == DecodedUpTo(Parsed, Len(Messages))

\* TradeAnalyzer::new(max_symbols, arena_bytes), then the workload: a cold
\* start with a small arena, or a warm-up that fills the table.
Scenarios ==
    { [arena_bytes |-> ArenaBytes, warm |-> <<>>],
      [arena_bytes |-> Capacity + ArenaBytes, warm |-> WarmIdx] }

\* ------------------------------------------------------------------- state

VARIABLES
    total_messages,      \* TradeAnalyzer.total_messages
    malformed_messages,  \* TradeAnalyzer.malformed_messages
    side_buy,            \* TradeAnalyzer.side_buy
    side_sell,           \* TradeAnalyzer.side_sell
    key_hash,            \* SymbolSlot.key_hash of every slot (u64)
    meta,                \* SymbolSlot.meta of every slot (u64)
    count,               \* SymbolSlot.count of every slot
    volume,              \* SymbolSlot.volume of every slot (u64)
    buf,                 \* Arena.buf
    next,                \* Arena.next
    loc,                 \* every thread's position and locals
    warm,                \* warm-up messages thread 1 still has to ingest
    calls,               \* calls started after the warm-up
    logged,              \* invocations of the caller's log_fn
    done,                \* history: process_message results handed to the wrapper
    okrec,               \* history: per decoded symbol, the records that returned Ok
    claims,              \* history: per slot, the calls whose CAS on key_hash won
    metaw,               \* history: per slot, the calls that stored meta
    bytew,               \* history: per arena byte, the calls that wrote it
    allocs,              \* history: the ranges Arena::alloc handed out
    rep,                 \* the reporting thread: position, locals, last report
    px                   \* a call of a pure function: its inputs and its results

counters == <<total_messages, malformed_messages, side_buy, side_sell>>
table == <<key_hash, meta, count, volume>>
arena == <<buf, next>>
ctl == <<warm, calls>>
results == <<logged, done, okrec>>
writers == <<claims, metaw, bytew, allocs>>
vars == <<counters, table, arena, loc, ctl, results, writers, rep, px>>

DecodedSymbols == {Decoded[m] : m \in 1..Len(Messages)}

IdleLoc ==
    [pc |-> "idle", m |-> 0, k |-> 0, idx |-> 0, probe |-> 0, spins |-> 0,
     cur |-> 0, off |-> 0, w |-> 0, res |-> "none", last |-> "none",
     touched |-> {}, lost |-> 0, retry |-> 0]

\* The reporting thread between two report_string calls.
IdleRep ==
    [pc |-> "idle", i |-> 0, hdr |-> <<>>, mv |-> U64Zero, sym |-> <<>>,
     cnt |-> 0, rows |-> <<>>, pub |-> <<>>, n |-> 0, mark |-> None,
     prev |-> None]

\* No pure function is being called.
NoCall == [fn |-> "none", args |-> <<>>, outs |-> <<>>]

\* The analyzer after TradeAnalyzer::new, no thread inside a call.
InitAnalyzer ==
    /\ total_messages = 0
    /\ malformed_messages = 0
    /\ side_buy = 0
    /\ side_sell = 0
    /\ key_hash = [i \in Slots |-> U64Zero]
    /\ meta = [i \in Slots |-> U64Zero]
    /\ count = [i \in Slots |-> 0]
    /\ volume = [i \in Slots |-> U64Zero]
    /\ \E sc \in Scenarios :
          /\ buf = [b \in 1..sc.arena_bytes |-> 0]
          /\ warm = sc.warm
    /\ next = 0
    /\ loc = [t \in Threads |-> IdleLoc]
    /\ calls = 0
    /\ logged = 0
    /\ done = [ok |-> 0, err |-> 0]
    /\ okrec = [s \in DecodedSymbols |-> [n |-> 0, vol |-> U64Zero]]
    /\ claims = [i \in Slots |-> <<>>]
    /\ metaw = [i \in Slots |-> {}]
    /\ bytew = [b \in 1..Len(buf) |-> {}]
    /\ allocs = {}
    /\ rep = IdleRep

Init == InitAnalyzer /\ px = NoCall

\* ------------------------------------------------ locals of a running call

Symbol(l) == Parsed[l.m].v.symbol
Quantity(l) == Parsed[l.m].v.quantity
Side(l) == Parsed[l.m].v.side
Hash(l) == Hashed[l.m][1]
DecodedLen(l) == Hashed[l.m][2]
CallId(t) == <<t, loc[t].k>>

\* (hash as usize) & self.mask, for a capacity of at most 2^16
AndMask(h) == BytesNat(SubSeq(h, 1, 2)) % (mask + 1)

\* A packing with the offset in the low half and the length in the high half.
pack_meta_swapped(off, len) == NatBytes(off, 4) \o NatBytes(len, 4)

pack_meta(off, len) == NatBytes(len, 4) \o NatBytes(off, 4)
unpack_meta(v) == <<BytesNat(SubSeq(v, 5, 8)), BytesNat(SubSeq(v, 1, 4))>>

\* Arena::get / the bounds check of Arena::get_mut
get(off, len) ==
    IF off + len > Len(buf) THEN None ELSE Some(SubSeq(buf, off + 1, off + len))

\* process_message (and record inside it) returns res to the lossy wrapper.
ret(l, res) ==
    [l EXCEPT !.pc = "pm_ret", !.res = res, !.idx = 0, !.probe = 0,
              !.spins = 0, !.cur = 0, !.off = 0, !.w = 0]

\* record is entered: idx = hash & mask, first probe.
record_enter(l) ==
    [l EXCEPT !.pc = "rec_load", !.idx = AndMask(Hash(l)), !.probe = 0]

\* A probe loop that reports success when it runs out of slots.
advance_silent(l) ==
    IF l.probe = mask THEN ret(l, "Ok")
    ELSE [l EXCEPT !.pc = "rec_load", !.idx = (l.idx + 1) % (mask + 1),
                   !.probe = l.probe + 1, !.spins = 0]

\* idx = (idx + 1) & mask at the end of the loop body; TableFull after
\* capacity probes.
advance(l) ==
    IF l.probe = mask THEN ret(l, "TableFull")
    ELSE [l EXCEPT !.pc = "rec_load", !.idx = (l.idx + 1) % (mask + 1),
                   !.probe = l.probe + 1, !.spins = 0]

\* A wait_meta that spins until the value is published.
wait_meta_unbounded(v, spins) == v # U64Zero

\* wait_meta stops loading: the value is published or the spins are used up.
wait_meta_done(v, spins) == v # U64Zero \/ spins >= SpinLimit

\* The error kinds parse_required produces (ParseErrorKind, lines 26-33).
TokenizationErrors ==
    {"InvalidField", "InvalidNumber", "InvalidTimestamp", "MissingTag"}

\* A reservation that does not move the cursor.
alloc_end_stuck(cur, len) == cur

\* Arena::alloc, line 552: end = cur.checked_add(len)
alloc_end(cur, len) == cur + len

\* A bound check that refuses the last byte of the buffer.
alloc_fits_strict(cur, len) == alloc_end(cur, len) < Len(buf)

\* Arena::alloc, line 553: the reservation [cur, end) fits the buffer.
alloc_fits(cur, len) == alloc_end(cur, len) <= Len(buf)

\* A wrapper that reports tokenizer errors only.
is_err_tokenizer(res) == res \in TokenizationErrors

\* process_message_lossy, line 151: if let Err(e) = self.process_message(raw)
is_err(res) == res # "Ok"

\* ----------------------------------------------------------------- actions

\* A process_message that counts the message before it tokenizes it.
Start_counts_first(t) ==
    /\ loc[t].pc = "idle"
    /\ \E m \in 1..Len(Messages) :
          /\ IF warm # <<>>
             THEN t = 1 /\ m = Head(warm) /\ calls' = calls
             ELSE m \in RunIdx /\ calls < MaxCalls /\ calls' = calls + 1
          /\ loc' = [loc EXCEPT ![t] =
                IF Parsed[m].ok
                THEN [@ EXCEPT !.pc = "pm_total", !.m = m, !.k = @ + 1]
                ELSE [@ EXCEPT !.pc = "pm_ret", !.m = m, !.k = @ + 1,
                               !.res = Parsed[m].kind]]
          /\ total_messages' = IF Parsed[m].ok THEN total_messages
                               ELSE total_messages + 1
    /\ UNCHANGED <<malformed_messages, side_buy, side_sell, table, arena, warm,
                   results, writers>>
    /\ UNCHANGED <<rep, px>>

\* process_message_lossy(raw, log_fn) is called; process_message runs
\* parse_required(raw) (line 123), which touches no shared state.
Start(t) ==
    /\ loc[t].pc = "idle"
    /\ \E m \in 1..Len(Messages) :
          /\ IF warm # <<>>
             THEN t = 1 /\ m = Head(warm) /\ calls' = calls
             ELSE m \in RunIdx /\ calls < MaxCalls /\ calls' = calls + 1
          /\ loc' = [loc EXCEPT ![t] =
                IF Parsed[m].ok
                THEN [@ EXCEPT !.pc = "pm_total", !.m = m, !.k = @ + 1]
                ELSE [@ EXCEPT !.pc = "pm_ret", !.m = m, !.k = @ + 1,
                               !.res = Parsed[m].kind]]
    /\ UNCHANGED <<counters, table, arena, warm, results, writers>>
    /\ UNCHANGED <<rep, px>>

\* process_message_lossy is called with one of the colliding messages.
StartColliding(t) ==
    /\ loc[t].pc = "idle"
    /\ warm = <<>>
    /\ calls < MaxCalls
    /\ calls' = calls + 1
    /\ \E m \in CollidingIdx :
          loc' = [loc EXCEPT ![t] = [@ EXCEPT !.pc = "pm_total", !.m = m, !.k = @ + 1]]
    /\ UNCHANGED <<counters, table, arena, warm, results, writers>>
    /\ UNCHANGED <<rep, px>>

\* A call that goes on to the side counter without counting the message.
PmTotal_uncounted(t) ==
    /\ loc[t].pc = "pm_total"
    /\ loc' = [loc EXCEPT ![t] =
          LET l == [@ EXCEPT !.touched = @ \cup {"total_messages"}]
          IN  IF Side(l) \in {49, 50} THEN [l EXCEPT !.pc = "pm_side"]
              ELSE record_enter(l)]
    /\ UNCHANGED <<counters, table, arena, ctl, results, writers>>
    /\ UNCHANGED <<rep, px>>

\* A total_messages step that sends every side code on to a side counter.
PmTotal_any_side(t) ==
    /\ loc[t].pc = "pm_total"
    /\ total_messages' = total_messages + 1
    /\ loc' = [loc EXCEPT ![t] =
          [@ EXCEPT !.touched = @ \cup {"total_messages"}, !.pc = "pm_side"]]
    /\ UNCHANGED <<malformed_messages, side_buy, side_sell, table, arena, ctl,
                   results, writers>>
    /\ UNCHANGED <<rep, px>>

\* line 125: self.total_messages.fetch_add(1)
PmTotal(t) ==
    /\ loc[t].pc = "pm_total"
    /\ total_messages' = total_messages + 1
    /\ loc' = [loc EXCEPT ![t] =
          LET l == [@ EXCEPT !.touched = @ \cup {"total_messages"}]
          IN  IF Side(l) \in {49, 50} THEN [l EXCEPT !.pc = "pm_side"]
              ELSE record_enter(l)]
    /\ UNCHANGED <<malformed_messages, side_buy, side_sell, table, arena, ctl,
                   results, writers>>
    /\ UNCHANGED <<rep, px>>

\* lines 126-134: the side counter of a buy ('1') or a sell ('2')
PmSide(t) ==
    /\ loc[t].pc = "pm_side"
    /\ IF Side(loc[t]) = 49
       THEN side_buy' = side_buy + 1 /\ side_sell' = side_sell
       ELSE side_sell' = side_sell + 1 /\ side_buy' = side_buy
    /\ loc' = [loc EXCEPT ![t] =
          record_enter([@ EXCEPT !.touched =
              @ \cup {IF Side(loc[t]) = 49 THEN "side_buy" ELSE "side_sell"}])]
    /\ UNCHANGED <<total_messages, malformed_messages, table, arena, ctl,
                   results, writers>>
    /\ UNCHANGED <<rep, px>>

\* line 443: existing = slot.key_hash.load(Acquire), and the branch on it
RecLoad(t) ==
    /\ loc[t].pc = "rec_load"
    /\ loc' = [loc EXCEPT ![t] =
          IF key_hash[@.idx] = Hash(@) THEN [@ EXCEPT !.pc = "rec_wait", !.spins = 0]
          ELSE IF key_hash[@.idx] = U64Zero THEN [@ EXCEPT !.pc = "rec_cas"]
          ELSE advance(@)]
    /\ UNCHANGED <<counters, table, arena, ctl, results, writers>>
    /\ UNCHANGED <<rep, px>>

\* lines 446-453 and wait_meta: one load of meta; when the wait is over,
\* the stored bytes are compared with the raw symbol.
RecWait(t) ==
    /\ loc[t].pc = "rec_wait"
    /\ loc' = [loc EXCEPT ![t] =
          LET v == meta[@.idx]
              ol == unpack_meta(v)
              stored == get(ol[1], ol[2])
          IN  IF ~wait_meta_done(v, @.spins) THEN [@ EXCEPT !.spins = @ + 1]
              ELSE IF ~stored.some THEN ret(@, "ArenaFull")
              ELSE IF escaped_eq(Symbol(@), stored.v)
                   THEN [@ EXCEPT !.pc = "rec_count", !.spins = 0]
              ELSE advance(@)]
    /\ UNCHANGED <<counters, table, arena, ctl, results, writers>>
    /\ UNCHANGED <<rep, px>>

\* line 450: slot.count.fetch_add(1)
RecCount(t) ==
    /\ loc[t].pc = "rec_count"
    /\ count' = [count EXCEPT ![loc[t].idx] = @ + 1]
    /\ loc' = [loc EXCEPT ![t].pc = "rec_volume"]
    /\ UNCHANGED <<counters, key_hash, meta, volume, arena, ctl, results, writers>>
    /\ UNCHANGED <<rep, px>>

\* A volume step that adds the quantity to every slot of the table.
RecVolume_all(t) ==
    /\ loc[t].pc = "rec_volume"
    /\ volume' = [i \in Slots |-> wrapping_add(volume[i], Quantity(loc[t]))]
    /\ loc' = [loc EXCEPT ![t] = ret(@, "Ok")]
    /\ UNCHANGED <<counters, key_hash, meta, count, arena, ctl, results, writers>>
    /\ UNCHANGED <<rep, px>>

\* lines 451-452: slot.volume.fetch_add(qty); return Ok(())
RecVolume(t) ==
    /\ loc[t].pc = "rec_volume"
    /\ volume' = [volume EXCEPT ![loc[t].idx] = wrapping_add(@, Quantity(loc[t]))]
    /\ loc' = [loc EXCEPT ![t] = ret(@, "Ok")]
    /\ UNCHANGED <<counters, key_hash, meta, count, arena, ctl, results, writers>>
    /\ UNCHANGED <<rep, px>>

\* A claim that stores key_hash without comparing it with 0.
RecCas_blind(t) ==
    /\ loc[t].pc = "rec_cas"
    /\ key_hash' = [key_hash EXCEPT ![loc[t].idx] = Hash(loc[t])]
    /\ claims' = [claims EXCEPT ![loc[t].idx] = Append(@, CallId(t))]
    /\ loc' = [loc EXCEPT ![t].pc = "alloc_load"]
    /\ UNCHANGED <<counters, meta, count, volume, arena, ctl, results,
                   metaw, bytew, allocs>>
    /\ UNCHANGED <<rep, px>>

\* lines 457-460: key_hash.compare_exchange(0, hash); the loser falls
\* through to idx = (idx + 1) & mask.
RecCas(t) ==
    /\ loc[t].pc = "rec_cas"
    /\ IF key_hash[loc[t].idx] = U64Zero
       THEN /\ key_hash' = [key_hash EXCEPT ![loc[t].idx] = Hash(loc[t])]
            /\ claims' = [claims EXCEPT ![loc[t].idx] = Append(@, CallId(t))]
            /\ loc' = [loc EXCEPT ![t].pc = "alloc_load"]
       ELSE /\ loc' = [loc EXCEPT ![t] = advance([@ EXCEPT !.lost = @ + 1])]
            /\ UNCHANGED <<key_hash, claims>>
    /\ UNCHANGED <<counters, meta, count, volume, arena, ctl, results,
                   metaw, bytew, allocs>>
    /\ UNCHANGED <<rep, px>>

\* Arena::alloc, lines 547-555: len == 0, cur = next.load(), the bound.
AllocLoad(t) ==
    /\ loc[t].pc = "alloc_load"
    /\ loc' = [loc EXCEPT ![t] =
          IF DecodedLen(@) = 0 THEN ret(@, "ArenaFull")
          ELSE IF ~alloc_fits(next, DecodedLen(@)) THEN ret(@, "ArenaFull")
          ELSE [@ EXCEPT !.pc = "alloc_cas", !.cur = next]]
    /\ UNCHANGED <<counters, table, arena, ctl, results, writers>>
    /\ UNCHANGED <<rep, px>>

\* A reservation that stores the new cursor without comparing the old one.
AllocCas_blind(t) ==
    /\ loc[t].pc = "alloc_cas"
    /\ next' = alloc_end(loc[t].cur, DecodedLen(loc[t]))
    /\ allocs' = allocs \cup
          {[id |-> CallId(t), off |-> loc[t].cur, len |-> DecodedLen(loc[t]),
            sym |-> Decoded[loc[t].m]]}
    /\ loc' = [loc EXCEPT ![t] =
          [@ EXCEPT !.pc = "rec_write", !.off = loc[t].cur, !.cur = 0, !.w = 0]]
    /\ UNCHANGED <<counters, table, buf, ctl, results, claims, metaw, bytew>>
    /\ UNCHANGED <<rep, px>>

\* Arena::alloc, lines 556-562: next.compare_exchange(cur, end); then the
\* bounds check of get_mut (lines 463-466).
AllocCas(t) ==
    /\ loc[t].pc = "alloc_cas"
    /\ IF next = loc[t].cur
       THEN /\ next' = alloc_end(loc[t].cur, DecodedLen(loc[t]))
            /\ allocs' = allocs \cup
                  {[id |-> CallId(t), off |-> loc[t].cur, len |-> DecodedLen(loc[t]),
                    sym |-> Decoded[loc[t].m]]}
            /\ loc' = [loc EXCEPT ![t] =
                  IF get(@.cur, DecodedLen(@)).some
                  THEN [@ EXCEPT !.pc = "rec_write", !.off = loc[t].cur, !.cur = 0,
                                 !.w = 0]
                  ELSE ret(@, "ArenaFull")]
       ELSE /\ loc' = [loc EXCEPT ![t] =
                  [@ EXCEPT !.pc = "alloc_load", !.cur = 0, !.retry = @ + 1]]
            /\ UNCHANGED <<next, allocs>>
    /\ UNCHANGED <<counters, table, buf, ctl, results, claims, metaw, bytew>>
    /\ UNCHANGED <<rep, px>>

\* A decode that stops after the first byte.
RecWrite_one_byte(t) ==
    /\ loc[t].pc = "rec_write"
    /\ buf' = [buf EXCEPT ![loc[t].off + 1] = Decoded[loc[t].m][1]]
    /\ bytew' = [bytew EXCEPT ![loc[t].off + 1] = @ \cup {CallId(t)}]
    /\ loc' = [loc EXCEPT ![t] = [@ EXCEPT !.pc = "rec_meta", !.w = 0]]
    /\ UNCHANGED <<counters, table, next, ctl, results, claims, metaw, allocs>>
    /\ UNCHANGED <<rep, px>>

\* A decode that writes from the start of the buffer, whatever the offset.
RecWrite_at_start(t) ==
    /\ loc[t].pc = "rec_write"
    /\ buf' = [buf EXCEPT ![loc[t].w + 1] = Decoded[loc[t].m][loc[t].w + 1]]
    /\ bytew' = [bytew EXCEPT ![loc[t].w + 1] = @ \cup {CallId(t)}]
    /\ loc' = [loc EXCEPT ![t] =
          IF @.w + 1 = DecodedLen(@) THEN [@ EXCEPT !.pc = "rec_meta", !.w = 0]
          ELSE [@ EXCEPT !.w = @ + 1]]
    /\ UNCHANGED <<counters, table, next, ctl, results, claims, metaw, allocs>>
    /\ UNCHANGED <<rep, px>>

\* decode_into (lines 323-338) through the slice of get_mut: out[w] = byte
RecWrite(t) ==
    /\ loc[t].pc = "rec_write"
    /\ buf' = [buf EXCEPT ![loc[t].off + loc[t].w + 1] = Decoded[loc[t].m][loc[t].w + 1]]
    /\ bytew' = [bytew EXCEPT ![loc[t].off + loc[t].w + 1] = @ \cup {CallId(t)}]
    /\ loc' = [loc EXCEPT ![t] =
          IF @.w + 1 = DecodedLen(@) THEN [@ EXCEPT !.pc = "rec_meta", !.w = 0]
          ELSE [@ EXCEPT !.w = @ + 1]]
    /\ UNCHANGED <<counters, table, next, ctl, results, claims, metaw, allocs>>
    /\ UNCHANGED <<rep, px>>

\* line 469: slot.meta.store(pack_meta(off, decoded_len), Release)
RecMeta(t) ==
    /\ loc[t].pc = "rec_meta"
    /\ meta' = [meta EXCEPT ![loc[t].idx] = pack_meta(loc[t].off, DecodedLen(loc[t]))]
    /\ metaw' = [metaw EXCEPT ![loc[t].idx] = @ \cup {CallId(t)}]
    /\ loc' = [loc EXCEPT ![t].pc = "rec_setcount"]
    /\ UNCHANGED <<counters, key_hash, count, volume, arena, ctl, results,
                   claims, bytew, allocs>>
    /\ UNCHANGED <<rep, px>>

\* line 470: slot.count.store(1)
RecSetCount(t) ==
    /\ loc[t].pc = "rec_setcount"
    /\ count' = [count EXCEPT ![loc[t].idx] = 1]
    /\ loc' = [loc EXCEPT ![t].pc = "rec_setvolume"]
    /\ UNCHANGED <<counters, key_hash, meta, volume, arena, ctl, results, writers>>
    /\ UNCHANGED <<rep, px>>

\* lines 471-472: slot.volume.store(qty); return Ok(())
RecSetVolume(t) ==
    /\ loc[t].pc = "rec_setvolume"
    /\ volume' = [volume EXCEPT ![loc[t].idx] = Quantity(loc[t])]
    /\ loc' = [loc EXCEPT ![t] = ret(@, "Ok")]
    /\ UNCHANGED <<counters, key_hash, meta, count, arena, ctl, results, writers>>
    /\ UNCHANGED <<rep, px>>

\* process_message_lossy, lines 151-154: on Err the malformed counter and
\* the caller's log_fn; then the call returns.
LossyReturn(t) ==
    /\ loc[t].pc = "pm_ret"
    /\ IF is_err(loc[t].res)
       THEN /\ malformed_messages' = malformed_messages + 1
            /\ logged' = logged + 1
            /\ done' = [done EXCEPT !.err = @ + 1]
            /\ okrec' = okrec
       ELSE /\ done' = [done EXCEPT !.ok = @ + 1]
            /\ okrec' = [okrec EXCEPT ![Decoded[loc[t].m]] =
                  [n |-> @.n + 1, vol |-> wrapping_add(@.vol, Quantity(loc[t]))]]
            /\ UNCHANGED <<malformed_messages, logged>>
    /\ warm' = IF warm # <<>> THEN Tail(warm) ELSE warm
    /\ loc' = [loc EXCEPT ![t] = [IdleLoc EXCEPT !.k = loc[t].k, !.last = loc[t].res]]
    /\ UNCHANGED <<total_messages, side_buy, side_sell, table, arena, calls, writers>>
    /\ UNCHANGED <<rep, px>>

Next ==
    \E t \in Threads :
        \/ Start(t)
        \/ PmTotal(t)
        \/ PmSide(t)
        \/ RecLoad(t)
        \/ RecWait(t)
        \/ RecCount(t)
        \/ RecVolume(t)
        \/ RecCas(t)
        \/ AllocLoad(t)
        \/ AllocCas(t)
        \/ RecWrite(t)
        \/ RecMeta(t)
        \/ RecSetCount(t)
        \/ RecSetVolume(t)
        \/ LossyReturn(t)

Spec == Init /\ [][Next]_vars

\* ------------------------------------------------------------ observations

\* No process_message_lossy call is in progress.
Quiescent == \A t \in Threads : loc[t].pc = "idle"

\* String::from_utf8_lossy (line 497) on the bytes the workload stores: an
\* ASCII byte is its own code point, a byte that starts no well-formed
\* sequence is replaced by U+FFFD.
RECURSIVE from_utf8_lossy(_)
from_utf8_lossy(bytes) ==
    IF bytes = <<>> THEN <<>>
    ELSE <<IF Head(bytes) < 128 THEN Head(bytes) ELSE 65533>>
             \o from_utf8_lossy(Tail(bytes))

\* SymbolTable::snapshot over the slots 0 .. n - 1, in slot order.
RECURSIVE snapshot_upto(_)
snapshot_upto(n) ==
    IF n = 0 THEN <<>>
    ELSE LET i == n - 1
             rows == snapshot_upto(n - 1)
             ol == unpack_meta(meta[i])
             stored == get(ol[1], ol[2])
         IN  IF key_hash[i] = U64Zero THEN rows
             ELSE IF meta[i] = U64Zero THEN rows
             ELSE IF ~stored.some THEN rows
             ELSE Append(rows, [symbol |-> from_utf8_lossy(stored.v),
                                count |-> count[i], volume |-> volume[i]])

snapshot == snapshot_upto(Capacity)

\* The rows of a snapshot that hold the decoded symbol s.
RowsOf(s) == {j \in DOMAIN snapshot : snapshot[j].symbol = from_utf8_lossy(s)}

RECURSIVE SumCount(_, _)
SumCount(rows, js) ==
    IF js = {} THEN 0
    ELSE LET j == CHOOSE x \in js : TRUE
         IN  rows[j].count + SumCount(rows, js \ {j})

RECURSIVE SumVolume(_, _)
SumVolume(rows, js) ==
    IF js = {} THEN U64Zero
    ELSE LET j == CHOOSE x \in js : TRUE
         IN  wrapping_add(rows[j].volume, SumVolume(rows, js \ {j}))

\* ------------------------------------------------------- reporting thread

\* What tells two moments of ingestion apart: every call raises calls or
\* keeps its thread busy until its return raises done.
Mark == [calls |-> calls, done |-> done, quiet |-> Quiescent]

\* report_string (line 181) calls write_report; line 167 writes the title.
RepStart ==
    /\ rep.pc = "idle"
    /\ rep.n < MaxReports
    /\ rep' = [rep EXCEPT !.pc = "r_total", !.n = @ + 1, !.mark = Some(Mark),
                          !.hdr = <<>>, !.rows = <<>>, !.pub = <<>>, !.i = 0]
    /\ UNCHANGED <<counters, table, arena, loc, ctl, results, writers, px>>

\* line 168: self.total_messages()
RepTotal ==
    /\ rep.pc = "r_total"
    /\ rep' = [rep EXCEPT !.pc = "r_malformed", !.hdr = Append(@, total_messages)]
    /\ UNCHANGED <<counters, table, arena, loc, ctl, results, writers, px>>

\* line 169: self.malformed_messages()
RepMalformed ==
    /\ rep.pc = "r_malformed"
    /\ rep' = [rep EXCEPT !.pc = "r_buy", !.hdr = Append(@, malformed_messages)]
    /\ UNCHANGED <<counters, table, arena, loc, ctl, results, writers, px>>

\* line 170: self.side_buy.load(Relaxed)
RepBuy ==
    /\ rep.pc = "r_buy"
    /\ rep' = [rep EXCEPT !.pc = "r_sell", !.hdr = Append(@, side_buy)]
    /\ UNCHANGED <<counters, table, arena, loc, ctl, results, writers, px>>

\* line 171: self.side_sell.load(Relaxed); line 174 enters snapshot.
RepSell ==
    /\ rep.pc = "r_sell"
    /\ rep' = [rep EXCEPT !.pc = "s_key", !.hdr = Append(@, side_sell), !.i = 0]
    /\ UNCHANGED <<counters, table, arena, loc, ctl, results, writers, px>>

\* line 174 alone: self.symbols.snapshot() is entered, the header lines of
\* the report left out.
SnapStart ==
    /\ rep.pc = "idle"
    /\ rep.n < MaxReports
    /\ rep' = [rep EXCEPT !.pc = "s_key", !.n = @ + 1, !.mark = Some(Mark),
                          !.hdr = <<>>, !.rows = <<>>, !.pub = <<>>, !.i = 0]
    /\ UNCHANGED <<counters, table, arena, loc, ctl, results, writers, px>>

\* snapshot's for loop moves to the next slot, or returns the rows.
next_slot(r) ==
    IF r.i = mask THEN [r EXCEPT !.pc = "r_ret", !.i = 0, !.mv = U64Zero,
                                 !.sym = <<>>, !.cnt = 0]
    ELSE [r EXCEPT !.pc = "s_key", !.i = @ + 1, !.mv = U64Zero, !.sym = <<>>,
                   !.cnt = 0]

\* lines 483-486: h = slot.key_hash.load(Acquire); an empty slot is skipped.
SnapKey ==
    /\ rep.pc = "s_key"
    /\ rep' = IF key_hash[rep.i] = U64Zero THEN next_slot(rep)
              ELSE [rep EXCEPT !.pc = "s_meta"]
    /\ UNCHANGED <<counters, table, arena, loc, ctl, results, writers, px>>

\* A meta load that waits for the claimer of the slot to publish.
SnapMeta_wait ==
    /\ rep.pc = "s_meta"
    /\ rep' = IF meta[rep.i] = U64Zero THEN rep
              ELSE [rep EXCEPT !.pc = "s_bytes", !.mv = meta[rep.i],
                               !.pub = Append(@, rep.i)]
    /\ UNCHANGED <<counters, table, arena, loc, ctl, results, writers, px>>

\* A meta load that does not skip a slot whose meta is still zero.
SnapMeta_no_skip ==
    /\ rep.pc = "s_meta"
    /\ rep' = IF meta[rep.i] = U64Zero
              THEN [rep EXCEPT !.pc = "s_bytes", !.mv = U64Zero]
              ELSE [rep EXCEPT !.pc = "s_bytes", !.mv = meta[rep.i],
                               !.pub = Append(@, rep.i)]
    /\ UNCHANGED <<counters, table, arena, loc, ctl, results, writers, px>>

\* lines 487-491: meta = slot.meta.load(Acquire); an insertion in flight is
\* skipped.
SnapMeta ==
    /\ rep.pc = "s_meta"
    /\ rep' = IF meta[rep.i] = U64Zero THEN next_slot(rep)
              ELSE [rep EXCEPT !.pc = "s_bytes", !.mv = meta[rep.i],
                               !.pub = Append(@, rep.i)]
    /\ UNCHANGED <<counters, table, arena, loc, ctl, results, writers, px>>

\* lines 492-497: the stored bytes of the range, as a String.
SnapBytes ==
    /\ rep.pc = "s_bytes"
    /\ rep' = LET ol == unpack_meta(rep.mv)
                  stored == get(ol[1], ol[2])
              IN  IF ~stored.some THEN next_slot(rep)
                  ELSE [rep EXCEPT !.pc = "s_count",
                                   !.sym = from_utf8_lossy(stored.v)]
    /\ UNCHANGED <<counters, table, arena, loc, ctl, results, writers, px>>

\* line 498: count = slot.count.load(Relaxed)
SnapCount ==
    /\ rep.pc = "s_count"
    /\ rep' = [rep EXCEPT !.pc = "s_volume", !.cnt = count[rep.i]]
    /\ UNCHANGED <<counters, table, arena, loc, ctl, results, writers, px>>

\* A volume read that takes the value and leaves zero behind.
SnapVolume_take ==
    /\ rep.pc = "s_volume"
    /\ rep' = next_slot([rep EXCEPT !.rows =
                  Append(@, [symbol |-> rep.sym, count |-> rep.cnt,
                             volume |-> volume[rep.i]])])
    /\ volume' = [volume EXCEPT ![rep.i] = U64Zero]
    /\ UNCHANGED <<counters, key_hash, meta, count, arena, loc, ctl, results,
                   writers, px>>

\* lines 499-504: volume = slot.volume.load(Relaxed); the row is pushed.
SnapVolume ==
    /\ rep.pc = "s_volume"
    /\ rep' = next_slot([rep EXCEPT !.rows =
                  Append(@, [symbol |-> rep.sym, count |-> rep.cnt,
                             volume |-> volume[rep.i]])])
    /\ UNCHANGED <<counters, table, arena, loc, ctl, results, writers, px>>

\* lines 174-177 and 183-184: the rows are written and the text returned.
RepReturn ==
    /\ rep.pc = "r_ret"
    /\ rep' = [rep EXCEPT !.pc = "idle",
                          !.prev = Some([mark |-> rep.mark.v, hdr |-> rep.hdr,
                                         rows |-> rep.rows, pub |-> rep.pub]),
                          !.hdr = <<>>, !.rows = <<>>, !.pub = <<>>,
                          !.mark = None]
    /\ UNCHANGED <<counters, table, arena, loc, ctl, results, writers, px>>

RepStep ==
    \/ RepStart
    \/ RepTotal
    \/ RepMalformed
    \/ RepBuy
    \/ RepSell
    \/ SnapKey
    \/ SnapMeta
    \/ SnapBytes
    \/ SnapCount
    \/ SnapVolume
    \/ RepReturn

SnapStep ==
    \/ SnapStart
    \/ SnapKey
    \/ SnapMeta
    \/ SnapBytes
    \/ SnapCount
    \/ SnapVolume
    \/ RepReturn

\* Ingestion from a cold start while the reporting thread takes its first
\* snapshot.
InitR == Init /\ warm = <<>>

NextR ==
    \/ rep.prev = None /\ Next /\ calls' <= RaceCalls
    \/ SnapStep /\ rep'.n <= 1

SpecR == InitR /\ [][NextR]_vars

\* ------------------------------------------------------------------ claims

\* C1: at most one call ever allocates arena space for a given decoded
\* symbol, and once every call has returned the snapshot holds at most one
\* row per decoded symbol.
C1_OneRowPerSymbol ==
    /\ \A a, b \in allocs : a.sym = b.sym => a.id = b.id
    /\ Quiescent =>
          \A j, k \in DOMAIN snapshot :
              snapshot[j].symbol = snapshot[k].symbol => j = k

\* C2: once every call has returned and all of them returned Ok, the rows
\* of each decoded symbol sum to the number of its records and to the sum of
\* their quantities modulo 2^64.
C2_NoRecordLost ==
    (Quiescent /\ done.err = 0) =>
        \A s \in DecodedSymbols :
            /\ SumCount(snapshot, RowsOf(s)) = okrec[s].n
            /\ SumVolume(snapshot, RowsOf(s)) = okrec[s].vol

\* C3: a process_message call that fails with TableFull or ArenaFull has
\* incremented none of total_messages, side_buy and side_sell.
C3_CapacityErrorLeavesCounters ==
    \A t \in Threads :
        (loc[t].pc = "pm_ret" /\ loc[t].res \in {"TableFull", "ArenaFull"})
            => loc[t].touched = {}

\* The thread t takes the step.
Stepped(t) == loc'[t] # loc[t]

\* C4: a call whose message fails tokenization returns having added exactly
\* 1 to malformed_messages, and none of its steps changes total_messages,
\* side_buy, side_sell, a slot or the arena.
C4_MalformedIsSkipped ==
    [][\A t \in Threads :
          /\ (loc[t].pc = "idle" /\ loc'[t].pc # "idle" /\ ~Parsed[loc'[t].m].ok)
                => /\ loc'[t].pc = "pm_ret"
                   /\ loc'[t].res \in TokenizationErrors
                   /\ UNCHANGED <<counters, table, arena>>
          /\ (loc[t].pc # "idle" /\ ~Parsed[loc[t].m].ok /\ Stepped(t))
                => /\ loc'[t].pc = "idle"
                   /\ malformed_messages' = malformed_messages + 1
                   /\ UNCHANGED <<total_messages, side_buy, side_sell, table, arena>>
      ]_vars

\* A well-formed message has been recorded by a thread whose previous
\* message failed tokenization.
C4_Witness ==
    \E t \in Threads :
        /\ loc[t].last \in TokenizationErrors
        /\ loc[t].pc = "pm_ret"
        /\ loc[t].res = "Ok"
        /\ "total_messages" \in loc[t].touched
        /\ malformed_messages >= 1

\* C5: process_message_lossy returns from every result of process_message;
\* the step that returns adds 1 to malformed_messages and calls log_fn once
\* when the result is an error, and no other step of a call does either.
C5_LossyCountsEveryError ==
    [][\A t \in Threads :
          Stepped(t) =>
              IF loc[t].pc = "pm_ret"
              THEN /\ loc'[t].pc = "idle"
                   /\ IF loc[t].res = "Ok"
                      THEN UNCHANGED <<malformed_messages, logged>>
                      ELSE /\ malformed_messages' = malformed_messages + 1
                           /\ logged' = logged + 1
              ELSE UNCHANGED <<malformed_messages, logged>>
      ]_vars

\* A call has returned from TableFull, another from a tokenizer error, and
\* the warm-up calls returned Ok.
C5_Witness ==
    /\ \E t \in Threads : loc[t].last = "TableFull"
    /\ \E t \in Threads : loc[t].last \in TokenizationErrors
    /\ done.ok >= Capacity
    /\ logged = 2

SeqRange(s) == {s[j] : j \in DOMAIN s}

\* The indices of buf that the meta of slot i points to.
MetaRange(i) ==
    LET ol == unpack_meta(meta[i]) IN (ol[1] + 1)..(ol[1] + ol[2])

Published(i) == key_hash[i] # U64Zero /\ meta[i] # U64Zero

\* C6: no slot has a meta without a key_hash; a non-zero key_hash and a
\* non-zero meta never change, and a slot that gets its key_hash is claimed,
\* not yet published.
C6_SlotMovesForward ==
    /\ [](\A i \in Slots : ~(key_hash[i] = U64Zero /\ meta[i] # U64Zero))
    /\ [][\A i \in Slots :
             /\ key_hash[i] # U64Zero => key_hash'[i] = key_hash[i]
             /\ meta[i] # U64Zero => meta'[i] = meta[i]
             /\ key_hash[i] = U64Zero => meta'[i] = U64Zero
       ]_vars

\* One slot is published while a call waits for the meta of another slot,
\* which is claimed and not yet published.
C6_Witness ==
    \E i, j \in Slots :
        /\ Published(i)
        /\ key_hash[j] # U64Zero /\ meta[j] = U64Zero
        /\ \E t \in Threads : loc[t].pc = "rec_wait" /\ loc[t].idx = j

\* C7: at most one call wins the compare-and-swap of a slot's key_hash;
\* the stores to the slot's meta and the writes to the arena bytes its meta
\* points to are all made by that call.
C7_OneClaimerPerSlot ==
    \A i \in Slots :
        /\ Len(claims[i]) <= 1
        /\ metaw[i] \subseteq SeqRange(claims[i])
        /\ \A b \in MetaRange(i) : bytew[b] \subseteq SeqRange(claims[i])

\* A call has lost the compare-and-swap of a slot that another call claimed
\* and published.
C7_Witness ==
    \E t \in Threads :
        /\ loc[t].lost >= 1
        /\ \E i \in Slots :
              /\ Published(i)
              /\ key_hash[i] = Hash(loc[t])
              /\ CallId(t) \notin SeqRange(claims[i])

\* C8: no step changes the key_hash or the meta of a published slot, or an
\* arena byte its meta points to.
C8_PublishedIsFrozen ==
    [][\A i \in Slots :
          meta[i] # U64Zero =>
              /\ key_hash'[i] = key_hash[i]
              /\ meta'[i] = meta[i]
              /\ \A b \in MetaRange(i) : buf'[b] = buf[b]
      ]_vars

\* A published symbol has been recorded again, another symbol has been
\* published after it in the arena, and a record has failed.
C8_Witness ==
    \E i, j \in Slots :
        /\ Published(i) /\ count[i] >= 2
        /\ Published(j) /\ unpack_meta(meta[j])[1] > unpack_meta(meta[i])[1]
        /\ \E t \in Threads : loc[t].last \in {"ArenaFull", "TableFull"}

\* C9: the ranges Arena::alloc has handed out to different calls are
\* disjoint and lie below the cursor; the cursor never exceeds the buffer
\* size and never decreases.
C9_AllocDisjoint ==
    /\ [](/\ next <= Len(buf)
          /\ \A a \in allocs : a.off + a.len <= next
          /\ \A a, b \in allocs :
                a.id # b.id => (a.off + a.len <= b.off \/ b.off + b.len <= a.off))
    /\ [][next' >= next]_vars

\* Two calls hold ranges, one of them after its compare-and-swap of the
\* cursor failed and it tried again.
C9_Witness ==
    /\ Cardinality(allocs) >= 2
    /\ \E t \in Threads :
          /\ loc[t].retry >= 1
          /\ loc[t].pc = "rec_write"
          /\ \E a \in allocs : a.id = CallId(t) /\ a.off > 0

\* C10: Arena::alloc(len) returns None, leaving the cursor, when len = 0 or
\* cursor + len exceeds the buffer size; otherwise it tries to move the
\* cursor by len, and when that succeeds it returns the old cursor.
C10_AllocResult ==
    [][/\ \A t \in Threads :
             Stepped(t) =>
                 /\ loc[t].pc = "alloc_load" =>
                       /\ next' = next
                       /\ IF DecodedLen(loc[t]) = 0
                             \/ next + DecodedLen(loc[t]) > Len(buf)
                          THEN loc'[t].pc = "pm_ret" /\ loc'[t].res = "ArenaFull"
                          ELSE loc'[t].pc = "alloc_cas" /\ loc'[t].cur = next
                 /\ loc[t].pc = "alloc_cas" =>
                       IF next = loc[t].cur
                       THEN /\ loc'[t].pc = "rec_write"
                            /\ loc'[t].off = next
                            /\ next' = next + DecodedLen(loc[t])
                       ELSE loc'[t].pc = "alloc_load" /\ next' = next
       /\ next' # next => \E t \in Threads : loc[t].pc = "alloc_cas" /\ Stepped(t)
      ]_vars

\* One call got None for a zero-length symbol, another for a symbol that
\* no longer fits, after an earlier reservation succeeded.
C10_Witness ==
    /\ allocs # {}
    /\ \E t, u \in Threads :
          /\ loc[t].pc = "pm_ret" /\ loc[t].res = "ArenaFull"
          /\ DecodedLen(loc[t]) = 0
          /\ loc[u].pc = "pm_ret" /\ loc[u].res = "ArenaFull"
          /\ DecodedLen(loc[u]) > 0
          /\ next + DecodedLen(loc[u]) > Len(buf)

\* The bytes a meta value points to.
StoredAt(v) == get(unpack_meta(v)[1], unpack_meta(v)[2])

\* The decoded symbol of the call that claimed slot i and reserved its range.
ClaimerSymbols(i) == {a.sym : a \in {b \in allocs : b.id \in SeqRange(claims[i])}}

\* C11: a non-zero meta points to the complete decoded symbol of the call
\* that claimed the slot, every byte of it written by then; so does the meta
\* value the snapshot holds when it reads the bytes, and the symbol it read.
C11_NoTornKey ==
    /\ \A i \in Slots :
          meta[i] # U64Zero =>
              /\ StoredAt(meta[i]).some
              /\ ClaimerSymbols(i) = {StoredAt(meta[i]).v}
              /\ \A b \in MetaRange(i) : bytew[b] # {}
    /\ rep.pc = "s_bytes" =>
          /\ rep.mv # U64Zero
          /\ ClaimerSymbols(rep.i) = {StoredAt(rep.mv).v}
    /\ rep.pc \in {"s_count", "s_volume"} =>
          \E x \in ClaimerSymbols(rep.i) : rep.sym = from_utf8_lossy(x)
    /\ \A t \in Threads :
          (loc[t].pc = "rec_count" /\ meta[loc[t].idx] # U64Zero) =>
              Decoded[loc[t].m] \in ClaimerSymbols(loc[t].idx)

\* The snapshot and a matching record have both read the meta of a two-byte
\* symbol whose claiming call has not returned yet.
C11_Witness ==
    /\ rep.pc = "s_bytes"
    /\ unpack_meta(rep.mv)[2] = 2
    /\ \E t, u \in Threads :
          /\ loc[t].pc \in {"rec_setcount", "rec_setvolume"}
          /\ loc[t].idx = rep.i
          /\ loc[u].pc = "rec_count"
          /\ loc[u].idx = rep.i

\* The rows and the observed-published slots of the snapshot in progress, or
\* of the one that returned last.
SnapViews ==
    {[rows |-> rep.rows, pub |-> rep.pub]}
        \cup (IF rep.prev.some
              THEN {[rows |-> rep.prev.v.rows, pub |-> rep.prev.v.pub]}
              ELSE {})

\* C12: the rows of a snapshot are, in order, the slots it observed with
\* non-zero key_hash and non-zero meta, one row each, in increasing slot
\* order; a slot it observed empty or unpublished has no row; each row's
\* symbol is the stored decoded bytes of its slot.
C12_SnapshotRows ==
    /\ \A v \in SnapViews :
          /\ \A j, k \in 1..Len(v.pub) : j < k => v.pub[j] < v.pub[k]
          /\ \A k \in 1..Len(v.pub) :
                key_hash[v.pub[k]] # U64Zero /\ meta[v.pub[k]] # U64Zero
          /\ Len(v.rows) <= Len(v.pub)
          /\ \A k \in 1..Len(v.rows) :
                v.rows[k].symbol = from_utf8_lossy(StoredAt(meta[v.pub[k]]).v)
    /\ rep.pc \in {"s_bytes", "s_count", "s_volume"} =>
          /\ Len(rep.pub) = Len(rep.rows) + 1
          /\ rep.pub[Len(rep.pub)] = rep.i
    /\ rep.pc \notin {"s_bytes", "s_count", "s_volume"} =>
          Len(rep.pub) = Len(rep.rows)
    /\ rep.prev.some => Len(rep.prev.v.pub) = Len(rep.prev.v.rows)

\* A snapshot has visited every slot: it reports one symbol and has no row
\* for a slot that is claimed and still unpublished.
C12_Witness ==
    /\ rep.pc = "r_ret"
    /\ Len(rep.rows) = 1
    /\ \E i \in Slots :
          /\ key_hash[i] # U64Zero
          /\ meta[i] = U64Zero
          /\ i \notin SeqRange(rep.pub)

\* C13: whenever no record call is in progress, every slot with a non-zero
\* key_hash has a non-zero meta, also after calls that returned ArenaFull.
C13_UnpublishedOnlyWhileRecording ==
    Quiescent => \A i \in Slots : key_hash[i] # U64Zero => meta[i] # U64Zero

\* ------------------------------------------------------ sequential ingestion

\* Calls made one after the other: a call starts only when none is running.
NextS ==
    /\ Next
    /\ \A t, u \in Threads :
          (loc'[t].pc # "idle" /\ loc'[u].pc # "idle") => t = u

SpecS == Init /\ [][NextS]_vars

\* The call of thread t is the second successful record of its decoded
\* symbol, and record has just returned Ok to process_message. The symbol
\* is not empty: the empty symbol has one spelling only.
SecondRecord(t) ==
    /\ loc[t].pc = "pm_ret"
    /\ loc[t].res = "Ok"
    /\ Decoded[loc[t].m] # <<>>
    /\ okrec[Decoded[loc[t].m]].n = 1

\* C14: after a symbol was recorded once, a record of the same decoded
\* symbol in any spelling leaves one row for it, with count 2 and the volume
\* the sum of both quantities modulo 2^64.
C14_SpellingsShareSlot ==
    \A t \in Threads :
        SecondRecord(t) =>
            LET s == Decoded[loc[t].m]
            IN  /\ Cardinality(RowsOf(s)) = 1
                /\ \A j \in RowsOf(s) :
                      /\ snapshot[j].count = 2
                      /\ snapshot[j].volume =
                             wrapping_add(okrec[s].vol, Quantity(loc[t]))

\* "A" was recorded with quantity 5; the call that records the spelling
\* "\A" of the same symbol has just returned from record.
C14_Witness ==
    \E t \in Threads :
        /\ SecondRecord(t)
        /\ loc[t].m = 2
        /\ okrec[Decoded[2]].vol = U64(5)

\* C14 as stated, the volume being the sum of both quantities.
C14_ExactSum ==
    \A t \in Threads :
        SecondRecord(t) =>
            LET s == Decoded[loc[t].m]
                sum == checked_add(okrec[s].vol, Quantity(loc[t]))
            IN  /\ Cardinality(RowsOf(s)) = 1
                /\ \A j \in RowsOf(s) :
                      /\ snapshot[j].count = 2
                      /\ sum.some
                      /\ snapshot[j].volume = sum.v

\* Every slot is published: the table holds Capacity symbols.
TableIsFull == \A i \in Slots : meta[i] # U64Zero

\* The decoded symbols the published slots hold.
StoredSymbols ==
    {StoredAt(meta[i]).v : i \in {j \in Slots : meta[j] # U64Zero}}

\* The message of the call of thread t that takes the step.
StepMessage(t) == IF loc[t].pc = "idle" THEN loc'[t].m ELSE loc[t].m

\* process_message returns to the lossy wrapper in this step of thread t.
Returns(t) == loc[t].pc # "pm_ret" /\ loc'[t].pc = "pm_ret"

\* C15: on a table that holds Capacity symbols, no step of a call for a
\* further symbol changes a slot, the arena bytes or the arena cursor, and
\* its record returns TableFull; no step changes a key or a meta, a call for
\* an admitted symbol returns Ok, and every slot has its row in the snapshot.
C15_FullTableRejectsNew ==
    /\ [][TableIsFull =>
            \A t \in Threads :
                (Stepped(t) /\ Parsed[StepMessage(t)].ok) =>
                    /\ UNCHANGED <<key_hash, meta, buf, next>>
                    /\ IF Decoded[StepMessage(t)] \in StoredSymbols
                       THEN Returns(t) => loc'[t].res = "Ok"
                       ELSE /\ UNCHANGED <<count, volume>>
                            /\ Returns(t) => loc'[t].res = "TableFull"]_vars
    /\ [](TableIsFull =>
            /\ Len(snapshot) = Capacity
            /\ \A i \in Slots :
                  snapshot[i + 1].symbol = from_utf8_lossy(StoredAt(meta[i]).v))

\* On the full table a thread got TableFull for a new symbol, and its next
\* call, for an admitted symbol, has just returned Ok from record.
C15_Witness ==
    /\ TableIsFull
    /\ \E t \in Threads :
          /\ loc[t].last = "TableFull"
          /\ loc[t].pc = "pm_ret"
          /\ loc[t].res = "Ok"

\* The slots claimed for a non-empty symbol.
ClaimedSlots ==
    {i \in Slots : key_hash[i] # U64Zero /\ key_hash[i] # FNV_OFFSET}

\* C16: with an arena that has room for all names, a sequential record of a
\* non-empty symbol returns Ok unless Capacity symbols are tracked already,
\* and TableFull otherwise; and between calls the slots taken are those of
\* the tracked symbols only, none is taken by a record call that failed.
C16_OnlyTrackedSymbolsTakeSlots ==
    /\ Len(buf) > ArenaBytes =>
          \A t \in Threads :
              (/\ loc[t].pc = "pm_ret"
               /\ Parsed[loc[t].m].ok
               /\ Decoded[loc[t].m] # <<>>) =>
                  IF Decoded[loc[t].m] \in StoredSymbols
                  THEN loc[t].res = "Ok"
                  ELSE /\ loc[t].res = "TableFull"
                       /\ Cardinality(StoredSymbols) = Capacity
    /\ Quiescent =>
          Cardinality(ClaimedSlots) = Cardinality(StoredSymbols \ {<<>>})

\* In a sequential run, while the call of thread t returns: an earlier
\* record call for the symbol of t returned ArenaFull. Such a call has left
\* a slot with the hash of the symbol and no meta; the call of t has not
\* failed that way, so the slot is not its own.
FailedBefore(t) ==
    /\ loc[t].pc = "pm_ret"
    /\ Parsed[loc[t].m].ok
    /\ loc[t].res # "ArenaFull"
    /\ \E i \in Slots : key_hash[i] = Hash(loc[t]) /\ meta[i] = U64Zero

\* C17: once a record call for a symbol has returned ArenaFull, no later
\* record call for the same symbol returns Ok.
C17_CapacityErrorsStay ==
    \A t \in Threads : FailedBefore(t) => loc[t].res # "Ok"

\* ------------------------------------------------------------ report text

RECURSIVE Div10From(_, _, _)
\* The u64 a divided by 10, limbs i down to 1 with the remainder r carried
\* in: <<quotient limbs, remainder>>.
Div10From(a, i, r) ==
    IF i = 0 THEN <<<<>>, r>>
    ELSE LET cur == r * 256 + a[i]
             rest == Div10From(a, i - 1, cur % 10)
         IN  <<Append(rest[1], cur \div 10), rest[2]>>

RECURSIVE DecDigits(_)
DecDigits(a) ==
    IF a = U64Zero THEN <<>>
    ELSE LET d == Div10From(a, 8, 0) IN Append(DecDigits(d[1]), 48 + d[2])

\* "{}" of a u64: its decimal digits, "0" for zero.
Display(a) == IF a = U64Zero THEN <<48>> ELSE DecDigits(a)

\* write_report, lines 167-176: the lines of the report, each the pieces
\* writeln! puts together; hdr are the four counters loaded, rows the
\* snapshot. report_string returns these lines as a String.
ReportText(hdr, rows) ==
    << <<"=== Compliance Report ===">>,
       <<"total_messages: ", Display(U64(hdr[1]))>>,
       <<"malformed_messages: ", Display(U64(hdr[2]))>>,
       <<"side_buy: ", Display(U64(hdr[3]))>>,
       <<"side_sell: ", Display(U64(hdr[4]))>>,
       <<"">>, <<"=== Volume by Symbol ===">> >>
    \o [k \in 1..Len(rows) |->
          <<rows[k].symbol, " count=", Display(U64(rows[k].count)),
            " volume=", Display(rows[k].volume)>>]

\* Ingestion, and then report_string called twice while no call is running
\* and none starts.
NextQ ==
    \/ rep = IdleRep /\ Next
    \/ Quiescent /\ RepStep

SpecQ == Init /\ [][NextQ]_vars

\* C18: the second of two report_string calls, made with no ingestion step
\* between them and no call in progress, returns the text the first one
\* returned; and no step of report_string changes a counter, a slot, the
\* arena bytes or the arena cursor.
C18_ReportIsIdempotent ==
    /\ []((rep.pc = "r_ret" /\ rep.prev.some /\ rep.prev.v.mark = rep.mark.v)
            => ReportText(rep.hdr, rep.rows)
                   = ReportText(rep.prev.v.hdr, rep.prev.v.rows))
    /\ [][rep' # rep => UNCHANGED <<counters, table, arena>>]_vars

\* The second report is complete: it has a row with a volume that is not
\* zero, and the counters it shows are not zero.
C18_Witness ==
    /\ rep.pc = "r_ret"
    /\ rep.prev.some
    /\ rep.prev.v.mark = rep.mark.v
    /\ rep.hdr[1] > 0
    /\ rep.hdr[2] > 0
    /\ \E k \in 1..Len(rep.rows) : rep.rows[k].volume # U64Zero

\* ------------------------------------------- ingestion and reporting, fair

\* The messages of the fair runs: "A" (two calls for it meet in one slot,
\* or race for it and probe on), the empty symbol (its slot is never
\* published) and a malformed message.
FairMessages == {1, 4, 6}

\* Ingestion and one snapshot, every interleaving of their loads and stores.
\* The snapshot is entered before the first call; its first load comes at
\* any time.
NextF ==
    \/ /\ Next
       /\ calls' <= RaceCalls
       /\ \A t \in Threads : loc'[t].m \in FairMessages \cup {0}
    \/ SnapStep /\ rep'.n <= 1 /\ (rep.pc = "idle" => calls = 0)

\* The next step of the call thread t is in.
Continue(t) == loc[t].pc # "idle" /\ Next /\ Stepped(t)

\* The next step of the snapshot in progress.
SnapContinue == rep.pc # "idle" /\ SnapStep

\* Every thread that is inside a call is scheduled again and again.
SpecF ==
    /\ InitR
    /\ [][NextF]_vars
    /\ \A t \in Threads : WF_vars(Continue(t))
    /\ WF_vars(SnapContinue)

\* C19: a thread inside a call can always take its next step, whatever the
\* others do; record stays within Capacity probes and SpinLimit spins per
\* probe; the arena compare_exchange fails only after another thread's
\* allocation at the loaded cursor succeeded; and under fair scheduling
\* every call returns.
C19_EveryCallTerminates ==
    /\ [](\A t \in Threads :
            /\ loc[t].pc # "idle" => ENABLED Continue(t)
            /\ loc[t].probe <= mask
            /\ loc[t].spins <= SpinLimit
            /\ (loc[t].pc = "alloc_cas" /\ next # loc[t].cur) =>
                  \E a \in allocs : a.id[1] # t /\ a.off = loc[t].cur
            /\ loc[t].retry <= Cardinality({a \in allocs : a.id[1] # t}))
    /\ [](rep.pc # "idle" => ENABLED SnapContinue)
    /\ \A t \in Threads : (loc[t].pc # "idle") ~> (loc[t].pc = "idle")
    /\ (rep.pc # "idle") ~> (rep.pc = "idle")

\* One thread is about to retry the arena compare_exchange that the other,
\* still inside its call, made fail; the snapshot is under way.
C19_Witness ==
    /\ rep.pc \notin {"idle", "r_ret"}
    /\ \E t, u \in Threads :
          /\ loc[t].retry = 1
          /\ loc[t].pc = "alloc_load"
          /\ loc[u].pc = "rec_write"

\* ------------------------------------------------ threads that stop forever

\* The thread t stops for good between the compare_exchange that claimed a
\* slot and the store of its meta.
Halt(t) ==
    /\ loc[t].pc \in {"alloc_load", "alloc_cas", "rec_write", "rec_meta"}
    /\ loc' = [loc EXCEPT ![t] = [IdleLoc EXCEPT !.pc = "halted", !.k = loc[t].k]]
    /\ UNCHANGED <<counters, table, arena, ctl, results, writers, rep, px>>

\* The reporting thread stops for good, wherever it is.
HaltRep ==
    /\ rep.pc # "idle"
    /\ rep.pc # "halted"
    /\ rep' = [IdleRep EXCEPT !.pc = "halted", !.n = rep.n]
    /\ UNCHANGED <<counters, table, arena, loc, ctl, results, writers, px>>

NextH ==
    \/ NextF
    \/ \E t \in Threads : Halt(t)
    \/ HaltRep

\* Every thread that has not stopped for good is scheduled again and again.
SpecH ==
    /\ InitR
    /\ [][NextH]_vars
    /\ \A t \in Threads : WF_vars(Continue(t))
    /\ WF_vars(SnapContinue)

\* C20: a snapshot that is not stopped returns, whichever ingesting threads
\* have stopped between claiming a slot and publishing it, and it passes
\* over the slots once, in order; a call that is not stopped returns,
\* wherever the reporting thread has stopped.
C20_NeitherWaitsForTheOther ==
    /\ (rep.pc \notin {"idle", "halted"}) ~> (rep.pc \in {"idle", "halted"})
    /\ \A t \in Threads :
          (loc[t].pc \notin {"idle", "halted"})
              ~> (loc[t].pc \in {"idle", "halted"})
    /\ [][LET rank == [idle |-> 0, s_key |-> 1, s_meta |-> 2, s_bytes |-> 3,
                       s_count |-> 4, s_volume |-> 5, r_ret |-> 6, halted |-> 7]
          IN  \/ rep'.pc \in {"r_ret", "idle", "halted"}
              \/ rep'.i = rep.i + 1 /\ rep'.pc = "s_key"
              \/ rep'.i = rep.i /\ rank[rep'.pc] > rank[rep.pc]]_rep

\* The snapshot has passed over all slots and is about to return, while a
\* thread has stopped for good with its slot claimed and not published.
C20_Witness ==
    /\ rep.pc = "r_ret"
    /\ \E t \in Threads : loc[t].pc = "halted"
    /\ \E i \in Slots : key_hash[i] # U64Zero /\ meta[i] = U64Zero

\* The counters a call for a message with side code c has to increment.
CountersOf(c) ==
    {"total_messages"}
        \cup (IF c = 49 THEN {"side_buy"} ELSE IF c = 50 THEN {"side_sell"} ELSE {})

\* C21: a call whose message is tokenized adds 1 to total_messages in one
\* step, 1 to side_buy in one step iff the side code is '1', 1 to side_sell
\* in one step iff it is '2', and none of its other steps changes one of the
\* three; when it enters record it has incremented what its side code asks
\* for and nothing else.
C21_CountersPerMessage ==
    /\ [][\A t \in Threads :
            Stepped(t) =>
                /\ total_messages' =
                       total_messages + (IF loc[t].pc = "pm_total" THEN 1 ELSE 0)
                /\ side_buy' =
                       side_buy + (IF loc[t].pc = "pm_side" /\ Side(loc[t]) = 49
                                   THEN 1 ELSE 0)
                /\ side_sell' =
                       side_sell + (IF loc[t].pc = "pm_side" /\ Side(loc[t]) = 50
                                    THEN 1 ELSE 0)]_vars
    /\ [](\A t \in Threads :
            (/\ loc[t].pc \notin {"idle", "pm_total", "pm_side"}
             /\ Parsed[loc[t].m].ok) =>
                loc[t].touched = CountersOf(Side(loc[t])))

\* Three calls are past their counters, with side codes '1', '2' and '3':
\* total_messages is 3, side_buy 1 and side_sell 1.
C21_Witness ==
    /\ total_messages = 3
    /\ side_buy = 1
    /\ side_sell = 1
    /\ \E t \in Threads :
          /\ loc[t].pc = "pm_ret"
          /\ Parsed[loc[t].m].ok
          /\ Side(loc[t]) = 51

\* C29: a record call whose compare-and-swap on an empty slot fails reads
\* that same slot again and evaluates it as a potential match before it
\* advances: its next step is at the index it lost.
C29_LoserRereadsSlot ==
    [][\A t \in Threads :
          (/\ loc[t].pc = "rec_cas"
           /\ key_hash[loc[t].idx] # U64Zero
           /\ Stepped(t))
              => /\ loc'[t].pc \in {"rec_load", "rec_wait"}
                 /\ loc'[t].idx = loc[t].idx
      ]_vars

\* The slots a call has gone past in its probe sequence.
ProbedBefore(l) == {(AndMask(Hash(l)) + d) % (mask + 1) : d \in 0..(l.probe - 1)}

\* The steps of record between a won compare-and-swap and its return.
ClaimPath ==
    {"alloc_load", "alloc_cas", "rec_write", "rec_meta", "rec_setcount", "rec_setvolume"}

\* C30: a miss caused by an expired wait for meta is transient: a call whose
\* wait expired on a claimed, unpublished slot of its symbol takes no second
\* slot for that symbol, so the table ends with a single row for it.  (A
\* call that lost no compare-and-swap went past a slot carrying its hash
\* only through the wait for meta.)
C30_ExpiryTakesNoSecondSlot ==
    \A t \in Threads :
        (loc[t].pc \in ClaimPath /\ loc[t].lost = 0) =>
            \A i \in ProbedBefore(loc[t]) :
                ~(/\ key_hash[i] = Hash(loc[t])
                  /\ Decoded[loc[t].m] \in ClaimerSymbols(i))

\* ------------------------------------------------------- colliding symbols

\* TradeAnalyzer::new with an arena that holds both colliding symbols.
InitC ==
    /\ total_messages = 0
    /\ malformed_messages = 0
    /\ side_buy = 0
    /\ side_sell = 0
    /\ key_hash = [i \in Slots |-> U64Zero]
    /\ meta = [i \in Slots |-> U64Zero]
    /\ count = [i \in Slots |-> 0]
    /\ volume = [i \in Slots |-> U64Zero]
    /\ buf = [b \in 1..(Len(CollidingSymbols[1]) + Len(CollidingSymbols[2])) |-> 0]
    /\ warm = <<>>
    /\ next = 0
    /\ loc = [t \in Threads |-> IdleLoc]
    /\ calls = 0
    /\ logged = 0
    /\ done = [ok |-> 0, err |-> 0]
    /\ okrec = [s \in DecodedSymbols |-> [n |-> 0, vol |-> U64Zero]]
    /\ claims = [i \in Slots |-> <<>>]
    /\ metaw = [i \in Slots |-> {}]
    /\ bytew = [b \in 1..Len(buf) |-> {}]
    /\ allocs = {}
    /\ rep = IdleRep
    /\ px = NoCall

\* The threads ingest the two colliding messages, in any order and number.
NextC ==
    \E t \in Threads :
        \/ StartColliding(t)
        \/ PmTotal(t)
        \/ PmSide(t)
        \/ RecLoad(t)
        \/ RecWait(t)
        \/ RecCount(t)
        \/ RecVolume(t)
        \/ RecCas(t)
        \/ AllocLoad(t)
        \/ AllocCas(t)
        \/ RecWrite(t)
        \/ RecMeta(t)
        \/ RecSetCount(t)
        \/ RecSetVolume(t)
        \/ LossyReturn(t)

SpecC == InitC /\ [][NextC]_vars

\* C31: with two symbols of the same hash, a record adds to count and
\* volume only at a slot that stores its own symbol (a hash match with other
\* bytes is probed past); once all calls have returned, each symbol that was
\* recorded has a row of its own, which holds no more than its own records.
C31_CollisionKeepsProbing ==
    /\ \A t \in Threads :
          loc[t].pc \in {"rec_count", "rec_volume"} =>
              StoredAt(meta[loc[t].idx]) = Some(Decoded[loc[t].m])
    /\ Quiescent =>
          \A k \in 1..2 :
              LET sym == CollidingSymbols[k]
              IN  okrec[sym].n > 0 =>
                      /\ RowsOf(sym) # {}
                      /\ \A j \in RowsOf(sym) :
                            /\ snapshot[j].count <= okrec[sym].n
                            /\ ~U64Less(okrec[sym].vol, snapshot[j].volume)

\* Both symbols are stored, in the home slot of their hash and in the next
\* one, and a later record has gone past the first to add to the second.
C31_Witness ==
    /\ Quiescent
    /\ key_hash[0] = key_hash[mask] /\ Published(0) /\ Published(mask)
    /\ StoredAt(meta[0]) # StoredAt(meta[mask])
    /\ count[0] = 2 /\ count[mask] = 1

\* The step of thread t is a volume fetch_add that wraps around 2^64.
WrapsVolume(t) ==
    /\ loc[t].pc = "rec_volume"
    /\ ~checked_add(volume[loc[t].idx], Quantity(loc[t])).some

\* C32: absent 64-bit wrap, no step decreases total_messages,
\* malformed_messages, side_buy or side_sell, nor the count or the volume of
\* a published slot.
C32_CountersNeverDecrease ==
    [][/\ total_messages' >= total_messages
       /\ malformed_messages' >= malformed_messages
       /\ side_buy' >= side_buy
       /\ side_sell' >= side_sell
       /\ \A i \in Slots :
             Published(i) =>
                 /\ count'[i] >= count[i]
                 /\ U64Less(volume'[i], volume[i]) =>
                        \E t \in Threads : loc[t].idx = i /\ WrapsVolume(t) /\ Stepped(t)
      ]_vars

\* C33: every row a snapshot returns comes from a fully initialised slot:
\* its count is at least 1 (no row with count 0 is reported).
C33_RowsAreInitialised ==
    \A k \in 1..Len(rep.rows) : rep.rows[k].count >= 1

\* C34: once a record of a symbol (the empty symbol included) has returned
\* Ok and no call is in progress, a snapshot has a row whose symbol is the
\* decoded bytes of that symbol.
C34_OkRecordHasRow ==
    Quiescent =>
        \A sym \in DecodedSymbols : okrec[sym].n > 0 => RowsOf(sym) # {}

\* C38: in a sequential run, every step of a call for a symbol that a
\* published slot already stores leaves key_hash, meta, the arena bytes and
\* the arena cursor unchanged and claims no slot; the only changes to the
\* table are count + 1 and volume + quantity at the slot that stores the
\* symbol, and the call returns Ok.
C38_ReRecordTouchesOneSlot ==
    [][\A t \in Threads :
          (/\ Stepped(t)
           /\ loc[t].pc \notin ({"idle", "pm_ret"} \cup ClaimPath)
           /\ Decoded[loc[t].m] \in StoredSymbols)
              => /\ UNCHANGED <<key_hash, meta, buf, next, claims, allocs>>
                 /\ loc'[t].pc \notin ClaimPath
                 /\ loc'[t].pc = "pm_ret" => loc'[t].res = "Ok"
                 /\ \A i \in Slots :
                       LET here == /\ i = loc[t].idx
                                   /\ StoredAt(meta[i]) = Some(Decoded[loc[t].m])
                       IN  /\ count'[i] = count[i] +
                                 (IF here /\ loc[t].pc = "rec_count" THEN 1 ELSE 0)
                           /\ volume'[i] =
                                 IF here /\ loc[t].pc = "rec_volume"
                                 THEN wrapping_add(volume[i], Quantity(loc[t]))
                                 ELSE volume[i]
      ]_vars

\* The symbol A has been recorded a second time, under another spelling:
\* one slot is taken, one arena byte is used, and the slot counts 2.
C38_Witness ==
    /\ \E t \in Threads :
          loc[t].pc = "pm_ret" /\ loc[t].res = "Ok" /\ Decoded[loc[t].m] = <<65>>
    /\ warm = <<>>
    /\ next = 1
    /\ Cardinality({i \in Slots : key_hash[i] # U64Zero}) = 1
    /\ \E i \in Slots : StoredAt(meta[i]) = Some(<<65>>) /\ count[i] = 2

\* C39: in every reachable state side_buy + side_sell <= total_messages.
C39_SidesWithinTotal == side_buy + side_sell <= total_messages

\* A call has counted its message and not yet its side, after a buy was
\* counted in full.
C39_Witness ==
    /\ \E t \in Threads : loc[t].pc = "pm_side"
    /\ side_buy >= 1
    /\ side_buy + side_sell + 1 = total_messages

\* The arena range <<off, len>> the meta of slot i points to.
RangeOf(i) == unpack_meta(meta[i])

\* C40: the meta of a published slot unpacks to <<off, len>> with len >= 1
\* and off + len <= arena cursor <= arena size; the ranges of distinct
\* published slots are disjoint; a meta that has been stored is never 0, and
\* it unpacks to the offset and length its claimer packed.
C40_PublishedMetaIsARange ==
    /\ next <= Len(buf)
    /\ \A i \in Slots :
          /\ metaw[i] # {} => meta[i] # U64Zero
          /\ meta[i] # U64Zero =>
                /\ key_hash[i] # U64Zero
                /\ RangeOf(i)[2] >= 1
                /\ RangeOf(i)[1] + RangeOf(i)[2] <= next
                /\ \A j \in Slots \ {i} :
                      meta[j] # U64Zero =>
                          \/ RangeOf(i)[1] + RangeOf(i)[2] <= RangeOf(j)[1]
                          \/ RangeOf(j)[1] + RangeOf(j)[2] <= RangeOf(i)[1]
    /\ \A t \in Threads :
          loc[t].pc \in {"rec_setcount", "rec_setvolume"} =>
              RangeOf(loc[t].idx) = <<loc[t].off, DecodedLen(loc[t])>>

\* Two slots are published with adjacent one-byte ranges that fill the
\* arena, and the claimer of the second has just stored its meta.
C40_Witness ==
    /\ next = Len(buf)
    /\ \E i, j \in Slots : RangeOf(i) = <<0, 1>> /\ RangeOf(j) = <<1, 1>>
    /\ \E t \in Threads : loc[t].pc = "rec_setcount" /\ loc[t].off = 1

\* ------------------------------------------- the tokenizer as a function

\* The byte strings of length at most n over the bytes of A.
StringsOver(A, n) == UNION {[1..k -> A] : k \in 0..n}

\* 11=O|55=A|54=1|38=5|52=20240115-09:30:00.123456|
PlainMessage == Msg(<<65>>, 49, <<53>>)

\* Raw messages made of short fields, and a well-formed message followed by
\* up to two more bytes ('x', '=', '|').
FieldInputs ==
    StringsOver({49, EQUALS, FIELD_DELIM, ESCAPE}, MaxFieldBytes)
        \cup {PlainMessage \o w : w \in StringsOver({120, EQUALS, FIELD_DELIM}, 2)}

\* The tokenizer has been called on px.args[1] and has not returned yet.
Tokenize ==
    /\ px.fn = "parse_required"
    /\ px.outs = <<>>
    /\ px' = [px EXCEPT !.outs = <<parse_required(px.args[1])>>]
    /\ UNCHANGED <<counters, table, arena, loc, ctl, results, writers, rep>>

\* EscapedValue::decode_into on the symbol of an accepted message.
Decode ==
    /\ px.fn = "parse_required"
    /\ Len(px.outs) = 1
    /\ px.outs[1].ok
    /\ px' = [px EXCEPT !.outs = Append(@, decode_into(px.outs[1].v.symbol))]
    /\ UNCHANGED <<counters, table, arena, loc, ctl, results, writers, rep>>

RECURSIVE FieldsFrom(_, _)
\* The fields of raw from byte index i on: <<start, end>> pairs, the bytes
\* between unescaped delimiters, a final field without delimiter included.
FieldsFrom(raw, i) ==
    IF i >= Len(raw) THEN {}
    ELSE LET e == find_unescaped(raw, i, FIELD_DELIM)
             stop == IF e.some THEN e.v ELSE Len(raw)
         IN  {<<i, stop>>} \cup FieldsFrom(raw, stop + 1)

\* Start offsets of the non-zero-length fields of raw without '=' or with an
\* empty tag.
BadFieldStarts(raw) ==
    {f[1] : f \in {g \in FieldsFrom(raw, 0) :
                      /\ g[2] > g[1]
                      /\ \/ \A k \in (g[1] + 1)..g[2] : raw[k] # EQUALS
                         \/ raw[g[1] + 1] = EQUALS}}

SetMin(S) == CHOOSE x \in S : \A y \in S : x <= y

\* The tokenizer has returned from the raw message px.args[1].
Tokenized == px.fn = "parse_required" /\ Len(px.outs) >= 1

\* C22: a raw message with a non-zero-length field that has no '=' or an
\* empty tag (a final field without trailing delimiter and one-byte fields
\* included) fails with InvalidField at the start offset of the first such
\* field, unless an earlier field failed already.
C22_BadFieldIsInvalidField ==
    (Tokenized /\ px.args[1] \in FieldInputs) =>
        LET bad == BadFieldStarts(px.args[1])
            out == px.outs[1]
        IN  bad # {} =>
                \/ out = Err("InvalidField", SetMin(bad))
                \/ /\ ~out.ok
                   /\ out.kind \in {"InvalidNumber", "InvalidTimestamp"}
                   /\ out.at_byte < SetMin(bad)

\* The five required fields, the side field carrying the value given.
RequiredFields(sidevalue) ==
    << Field(Tag11, <<79>>), Field(Tag55, <<65>>), Field(Tag54, sidevalue),
       Field(Tag38, <<53>>), Field(Tag52, GoodTimestamp) >>

RECURSIVE Pick(_, _, _)
\* The fields of fs whose index is in S, from index k on, in order.
Pick(fs, S, k) ==
    IF k > Len(fs) THEN <<>>
    ELSE (IF k \in S THEN fs[k] ELSE <<>>) \o Pick(fs, S, k + 1)

\* Messages of syntactically valid fields: any subset of the required
\* fields, the side value being "1" or empty.
TagInputs ==
    {Pick(RequiredFields(v), S, 1) : S \in SUBSET (1..5), v \in {<<49>>, <<>>}}

\* The tags that occur as a field of raw.
TagsOf(raw) ==
    {split_tag_value(Slice(raw, f[1], f[2])).v[1] :
        f \in {g \in FieldsFrom(raw, 0) :
                  g[2] > g[1] /\ split_tag_value(Slice(raw, g[1], g[2])).some}}

RequiredTags == {Tag11, Tag55, Tag54, Tag38, Tag52}

\* C23: a message of syntactically valid fields fails with MissingTag
\* exactly when one of the tags 11, 55, 54, 38, 52 does not occur as a field
\* of it; when all five occur the tokenizer accepts the message.
C23_MissingTagIffAbsent ==
    (Tokenized /\ px.args[1] \in TagInputs) =>
        LET out == px.outs[1]
            absent == RequiredTags \ TagsOf(px.args[1])
        IN  /\ (~out.ok /\ out.kind = "MissingTag") <=> (absent # {})
            /\ (absent = {}) => out.ok

\* "18446744073709551616" = 2^64 and "18446744073709551621" = 2^64 + 5
TwoTo64 == SubSeq(MaxQuantity, 1, 19) \o <<54>>
TwoTo64Plus5 == SubSeq(MaxQuantity, 1, 18) \o <<50, 49>>

\* Quantity texts: every short string over '0', '1', '9', 'x' and the
\* escape byte, and long digit strings around 2^64.
QuantityInputs ==
    StringsOver({48, 49, 57, 120, ESCAPE}, MaxValueBytes)
        \cup { MaxQuantity, TwoTo64, TwoTo64Plus5,
               <<48>> \o MaxQuantity, <<48, 48>> \o TwoTo64,
               [k \in 1..20 |-> 57], <<49>> \o [k \in 1..20 |-> 48],
               SubSeq(MaxQuantity, 1, 19), SubSeq(MaxQuantity, 1, 19) \o <<120>> }

\* 11=O|55=A|54=1|38=<q>|52=20240115-09:30:00.123456|
QuantityMessage(q) == Msg(<<65>>, 49, q)

RECURSIVE StripZeros(_)
\* A digit string without its leading zeros ("0" for a string of zeros).
StripZeros(q) ==
    IF Len(q) > 1 /\ Head(q) = 48 THEN StripZeros(Tail(q)) ELSE q

RECURSIVE DigitsLeq(_, _)
\* a <= b for digit strings of the same length.
DigitsLeq(a, b) ==
    IF a = <<>> THEN TRUE
    ELSE IF Head(a) # Head(b) THEN Head(a) < Head(b)
    ELSE DigitsLeq(Tail(a), Tail(b))

\* q is a non-empty string of ASCII digits whose value is at most 2^64 - 1.
IsDecimalU64(q) ==
    /\ q # <<>>
    /\ \A k \in 1..Len(q) : IsDigit(q[k])
    /\ LET d == StripZeros(q)
       IN  \/ Len(d) < Len(MaxQuantity)
           \/ Len(d) = Len(MaxQuantity) /\ DigitsLeq(d, MaxQuantity)

\* C24: the quantity of an accepted message is the decimal value of the
\* text of field 38, and the message is accepted exactly when that text is
\* a non-empty string of ASCII digits of value at most 2^64 - 1; for every
\* other text (empty, a non-digit or escape byte, a value of 2^64 or more)
\* the message fails with InvalidNumber.
C24_QuantityIsDecimalValue ==
    \A q \in QuantityInputs :
        (Tokenized /\ px.args[1] = QuantityMessage(q)) =>
            LET out == px.outs[1]
            IN  IF IsDecimalU64(q)
                THEN out.ok /\ Display(out.v.quantity) = StripZeros(q)
                ELSE ~out.ok /\ out.kind = "InvalidNumber"

\* The largest quantity has been accepted.
C24_Witness ==
    /\ Tokenized
    /\ px.args[1] = QuantityMessage(MaxQuantity)
    /\ px.outs[1].ok
    /\ px.outs[1].v.quantity = [k \in 1..8 |-> 255]

\* ------------------------------------------------------------- timestamps

\* YYYYMMDD-HH:MM:SS.ssssss from its five digit groups.
Timestamp(ymd, hh, mm, ss, us) ==
    ymd \o <<45>> \o hh \o <<58>> \o mm \o <<58>> \o ss \o <<46>> \o us

\* Well-formed timestamps: every combination of a few values of each group.
WellFormed ==
    {Timestamp(ymd, hh, mm, ss, us) :
        ymd \in {SubSeq(GoodTimestamp, 1, 8), [k \in 1..8 |-> 48], [k \in 1..8 |-> 57]},
        hh \in {<<48, 57>>, <<57, 57>>},
        mm \in {<<51, 48>>, <<48, 51>>},
        ss \in {<<48, 48>>, <<53, 57>>},
        us \in {SubSeq(GoodTimestamp, 19, 24), [k \in 1..6 |-> 48], [k \in 1..6 |-> 57]}}

\* GoodTimestamp with one byte replaced ('x', the escape byte, '0' or '-'),
\* cut short, or followed by more bytes.
Damaged ==
    {[GoodTimestamp EXCEPT ![k] = b] : k \in 1..TimestampLen, b \in {120, ESCAPE, 48, 45}}
        \cup {SubSeq(GoodTimestamp, 1, n) : n \in {0, 8, 23}}
        \cup {GoodTimestamp \o w : w \in {<<55>>, <<120>>, <<48, 48, 48>>}}

\* parse_fix_timestamp is applied to the next input of px.args.
ParseTimestamp ==
    /\ px.fn = "parse_fix_timestamp"
    /\ Len(px.outs) < Len(px.args)
    /\ px' = [px EXCEPT !.outs = Append(@, parse_fix_timestamp(px.args[Len(px.outs) + 1]))]
    /\ UNCHANGED <<counters, table, arena, loc, ctl, results, writers, rep>>

\* s is 8 digits, '-', 2 digits, ':', 2 digits, ':', 2 digits, '.', 6 digits.
IsExactFormat(s) ==
    /\ Len(s) = 24
    /\ s[9] = 45 /\ s[12] = 58 /\ s[15] = 58 /\ s[18] = 46
    /\ \A k \in (1..24) \ {9, 12, 15, 18} : IsDigit(s[k])

\* C25: parse_fix_timestamp returns Ok exactly for the 24-byte format, and
\* InvalidTimestamp for every other input (shorter, longer, wrong
\* separator, non-digit in a digit group, escape byte anywhere).
C25_OnlyExactFormat ==
    (px.fn = "parse_fix_timestamp" /\ Len(px.outs) >= 1) =>
        LET out == px.outs[1]
        IN  IF IsExactFormat(px.args[1]) THEN out.ok
            ELSE ~out.ok /\ out.kind = "InvalidTimestamp"

RECURSIVE DecimalValue(_)
\* The value of a short digit string.
DecimalValue(q) ==
    IF q = <<>> THEN 0 ELSE DecimalValue(SubSeq(q, 1, Len(q) - 1)) * 10 + (q[Len(q)] - 48)

\* The 14 digits YYYYMMDDHHMMSS of a well-formed timestamp.
PackedDigits(s) ==
    SubSeq(s, 1, 8) \o SubSeq(s, 10, 11) \o SubSeq(s, 13, 14) \o SubSeq(s, 16, 17)

\* C26: for well-formed timestamps, seconds is the number written
\* YYYYMMDDHHMMSS (YYYYMMDD*1000000 + HH*10000 + MM*100 + SS), micros is
\* the value of the last six digits and at most 999999, and two timestamps
\* with different digits give different (seconds, micros) pairs.
C26_TimestampPacking ==
    (px.fn = "parse_fix_timestamp" /\ \A k \in 1..Len(px.args) : px.args[k] \in WellFormed) =>
        /\ \A k \in 1..Len(px.outs) :
              /\ px.outs[k].ok
              /\ Display(px.outs[k].v.seconds) = StripZeros(PackedDigits(px.args[k]))
              /\ px.outs[k].v.micros = DecimalValue(SubSeq(px.args[k], 19, 24))
              /\ px.outs[k].v.micros <= MaxMicros
        /\ (Len(px.outs) = 2 /\ px.args[1] # px.args[2]) =>
              px.outs[1].v # px.outs[2].v

\* Two timestamps of the same second and different microseconds have been
\* parsed.
C26_Witness ==
    /\ px.fn = "parse_fix_timestamp"
    /\ Len(px.outs) = 2
    /\ px.args[1] = GoodTimestamp
    /\ px.args[2] # GoodTimestamp
    /\ px.outs[1].v.seconds = px.outs[2].v.seconds
    /\ px.outs[1].v.micros = 123456
    /\ px.outs[2].v.micros = 999999

\* ---------------------------------------------------------------- escaping

RECURSIVE EscapeDelims(_)
\* v with each '|' replaced by the two bytes '\' '|'.
EscapeDelims(v) ==
    IF v = <<>> THEN <<>>
    ELSE (IF Head(v) = FIELD_DELIM THEN <<ESCAPE, FIELD_DELIM>> ELSE <<Head(v)>>)
            \o EscapeDelims(Tail(v))

\* Field values over 'A', the delimiter and the escape byte.
ValueInputs == StringsOver({65, FIELD_DELIM, ESCAPE}, MaxValueBytes)

\* 11=O|55=<v with its delimiters escaped>|54=1|38=5|52=...|
ValueMessage(v) == Msg(EscapeDelims(v), 49, <<53>>)

\* C27: for every byte string v, backslashes included, the tokenizer
\* extracts v with its delimiters escaped as the single value of its field,
\* and the decoded value equals v.
C27_EscapedDelimiterRoundTrips ==
    \A v \in ValueInputs :
        (Tokenized /\ px.args[1] = ValueMessage(v)) =>
            /\ px.outs[1].ok
            /\ px.outs[1].v.symbol = EscapeDelims(v)
            /\ Len(px.outs) = 2 => px.outs[2] = v

\* ------------------------------------------------------- the escape codec

\* The codec functions are applied, one after the other, to the two byte
\* strings px.args = <<a, b>>: escaped_eq(a, b), ...
EscapedEq ==
    /\ px.fn = "codec"
    /\ Len(px.outs) = 0
    /\ px' = [px EXCEPT !.outs = Append(@, escaped_eq(px.args[1], px.args[2]))]
    /\ UNCHANGED <<counters, table, arena, loc, ctl, results, writers, rep>>

\* ... decode_into of each, ...
DecodeBoth ==
    /\ px.fn = "codec"
    /\ Len(px.outs) = 1
    /\ px' = [px EXCEPT !.outs =
                 Append(@, <<decode_into(px.args[1]), decode_into(px.args[2])>>)]
    /\ UNCHANGED <<counters, table, arena, loc, ctl, results, writers, rep>>

\* C35: escaped_eq(raw, stored) is true exactly when the bytes decode_into
\* produces from raw are equal to stored, for all byte strings over 'A', the
\* delimiter and the escape byte.
C35_EscapedEqIsDecodeThenCompare ==
    (px.fn = "codec" /\ Len(px.outs) >= 2) =>
        (px.outs[1] <=> (px.outs[2][1] = px.args[2]))

\* An escaped delimiter followed by a lone escape byte has been found equal
\* to the stored bytes '|' '\'.
C35_Witness ==
    /\ px.fn = "codec"
    /\ Len(px.outs) >= 2
    /\ px.args = << <<ESCAPE, FIELD_DELIM, ESCAPE>>, <<FIELD_DELIM, ESCAPE>> >>
    /\ px.outs[1]

\* ... decoded_len of each, ...
DecodedLenBoth ==
    /\ px.fn = "codec"
    /\ Len(px.outs) = 2
    /\ px' = [px EXCEPT !.outs =
                 Append(@, <<decoded_len(px.args[1]), decoded_len(px.args[2])>>)]
    /\ UNCHANGED <<counters, table, arena, loc, ctl, results, writers, rep>>

\* ... hash64_and_len of each, ...
HashBoth ==
    /\ px.fn = "codec"
    /\ Len(px.outs) = 3
    /\ px' = [px EXCEPT !.outs =
                 Append(@, <<hash64_and_len(px.args[1]), hash64_and_len(px.args[2])>>)]
    /\ UNCHANGED <<counters, table, arena, loc, ctl, results, writers, rep>>

FindDelim ==
    /\ px.fn = "codec"
    /\ Len(px.outs) = 4
    /\ px' = [px EXCEPT !.outs = Append(@, find_unescaped(px.args[1], 0, FIELD_DELIM))]
    /\ UNCHANGED <<counters, table, arena, loc, ctl, results, writers, rep>>

RECURSIVE LoneEscapeFrom(_, _)
\* Read from byte index i, raw ends with an escape byte that no earlier
\* escape byte takes as its second byte.
LoneEscapeFrom(raw, i) ==
    IF i >= Len(raw) THEN FALSE
    ELSE IF raw[i + 1] = ESCAPE
         THEN IF i + 1 < Len(raw) THEN LoneEscapeFrom(raw, i + 2) ELSE TRUE
         ELSE LoneEscapeFrom(raw, i + 1)

\* C37: a trailing lone escape byte is a literal byte for decode_into,
\* decoded_len, escaped_eq, hash64_and_len and find_unescaped alike (each
\* returns a result, the one of the same string with the last byte written
\* as an escaped escape); bytes without an escape byte decode to themselves
\* and decoded_len is their length.
C37_TrailingEscapeIsLiteral ==
    (px.fn = "codec" /\ Len(px.outs) = 5) =>
        LET raw == px.args[1]
            front == SubSeq(raw, 1, Len(raw) - 1)
        IN  /\ LoneEscapeFrom(raw, 0) =>
                  /\ px.outs[2][1] = decode_into(front) \o <<ESCAPE>>
                  /\ px.outs[3][1] = decoded_len(front) + 1
                  /\ px.outs[1] <=> (px.args[2] = decode_into(front) \o <<ESCAPE>>)
                  /\ px.outs[4][1] = hash64_and_len(front \o <<ESCAPE, ESCAPE>>)
                  /\ px.outs[5] = find_unescaped(front, 0, FIELD_DELIM)
            /\ ~HasEscape(raw) =>
                  /\ px.outs[2][1] = raw
                  /\ px.outs[3][1] = Len(raw)

\* '|' followed by a lone escape byte has gone through the five functions
\* and compared equal to the same two stored bytes.
C37_Witness ==
    /\ px.fn = "codec"
    /\ Len(px.outs) = 5
    /\ px.args = << <<FIELD_DELIM, ESCAPE>>, <<FIELD_DELIM, ESCAPE>> >>
    /\ px.outs[1]
    /\ px.outs[2][1] = <<FIELD_DELIM, ESCAPE>>
    /\ px.outs[5] = Some(0)

\* ------------------------------------ the pure functions as a state machine

\* The calls made: a function and the inputs it is handed.
PureCalls ==
    {[fn |-> "parse_required", args |-> <<raw>>, outs |-> <<>>] : raw \in FieldInputs \cup TagInputs
            \cup {QuantityMessage(q) : q \in QuantityInputs}
            \cup {ValueMessage(v) : v \in ValueInputs}}
        \cup {[fn |-> "codec", args |-> <<a, b>>, outs |-> <<>>] :
                a \in ValueInputs, b \in ValueInputs}
        \cup {[fn |-> "parse_fix_timestamp", args |-> <<s>>, outs |-> <<>>] :
                s \in Damaged}
        \cup {[fn |-> "parse_fix_timestamp", args |-> <<a, b>>, outs |-> <<>>] :
                a \in WellFormed, b \in WellFormed}

InitP == InitAnalyzer /\ warm = <<>> /\ px \in PureCalls

NextP ==
    \/ Tokenize \/ Decode \/ ParseTimestamp
    \/ EscapedEq \/ DecodeBoth \/ DecodedLenBoth \/ HashBoth \/ FindDelim

SpecP == InitP /\ [][NextP]_vars


====
